---------------------------- MODULE Spec2Model ----------------------------
(***************************************************************************)
(* Cycle-accurate model of the E4M3 arithmetic units of the CNN            *)
(* accelerator (src/hdl/components).  Every clocked MyHDL block is a       *)
(* function from the registers before a rising clock edge and the sampled  *)
(* inputs to the registers after the edge; one action per state of each    *)
(* state machine applies that function.                                    *)
(*                                                                         *)
(* MyHDL checks every assignment to an intbv signal against the range the  *)
(* signal was declared with and raises ValueError when it is violated;     *)
(* the simulation stops there.  The field ValueError of a unit's register  *)
(* record is TRUE once that has happened, and no edge is simulated after.  *)
(***************************************************************************)
EXTENDS Integers, Naturals, Sequences, FiniteSets, TLC

\* ------------------------------------------------------------------------
\* E4M3Format (src/utils/fp_defs.py)
\* ------------------------------------------------------------------------
WIDTH == 8
EXP_BITS == 4
MAN_BITS == 3
EXP_BIAS == 7

\* ------------------------------------------------------------------------
\* Bounds of the model
\* ------------------------------------------------------------------------
\* number of operand pairs of each unit's table the driver may present
NumPairs == 24
\* number of operations the driver starts in one run
MaxOps == 2
\* number of operand pairs of the MAC's table the driver may present
NumMacPairs == 3
\* number of MAC operations the driver starts in one run
MaxMacOps == 2
\* number of vector pairs of the array's table the driver may present
NumArrayVectors == 2
\* number of data_valid pulses the driver gives the array in one run
MaxArrayOps == 2
\* number of operand values of the integer table the driver may present
NumIntOperands == 4
\* number of products the driver has the integer processing element latch
MaxPeOps == 3
\* number of operand pairs of the integer MAC unit's table the driver may use
NumImacOperands == 4
\* number of enabled edges the driver gives the integer MAC unit in one run
MaxImacOps == 8
\* number of vector pairs of the 3x3 array's table the driver may present
NumIntVectors == 3
\* number of data_valid pulses the driver gives the 3x3 array in one run
MaxIntArrayOps == 3

\* ------------------------------------------------------------------------
\* intbv arithmetic
\* ------------------------------------------------------------------------
\* x[i], bit i of x
Bit(x, i) == (x \div (2 ^ i)) % 2

\* x[i:j], bits i-1 down to j of x (MyHDL slices exclude the upper index)
Slice(x, i, j) == (x \div (2 ^ j)) % (2 ^ (i - j))

\* x with bits i-1 down to j replaced by v (0 <= v < 2^(i-j))
SetSlice(x, i, j, v) == x - Slice(x, i, j) * (2 ^ j) + v * (2 ^ j)

\* x with bit i replaced by v
SetBit(x, i, v) == x - Bit(x, i) * (2 ^ i) + v * (2 ^ i)

\* x | y on naturals
RECURSIVE BitOr(_, _)
BitOr(x, y) ==
    IF x = 0 THEN y
    ELSE IF y = 0 THEN x
    ELSE (IF x % 2 = 1 \/ y % 2 = 1 THEN 1 ELSE 0)
         + 2 * BitOr(x \div 2, y \div 2)

\* x ^ y on single bits
BitXor(x, y) == IF x = y THEN 0 ELSE 1

\* the exponent field a[WIDTH-1:MAN_BITS] and the mantissa field a[MAN_BITS:]
ExpField(x) == Slice(x, WIDTH - 1, MAN_BITS)
ManField(x) == Slice(x, MAN_BITS, 0)
SignBit(x) == Bit(x, WIDTH - 1)

\* exponent 1111 and mantissa 111
IsNaNPattern(x) == ExpField(x) = 2 ^ EXP_BITS - 1 /\ ManField(x) = 2 ^ MAN_BITS - 1

\* ------------------------------------------------------------------------
\* fp8_e4m3_add (src/hdl/components/fp8_e4m3_add.py)
\* ------------------------------------------------------------------------
\* the registers of the adder with their initial values
add_init ==
    [ state |-> "IDLE",
      a |-> 0, b |-> 0, z |-> 0,
      a_s |-> 0, b_s |-> 0, z_s |-> 0,
      a_e |-> 0, b_e |-> 0, z_e |-> 0,
      a_m |-> 0, b_m |-> 0, z_m |-> 0,
      guard |-> 0, round_bit |-> 0, sticky |-> 0,
      exp_diff |-> 0, max_shifts |-> MAN_BITS + 2,
      sum_val |-> 0,
      s_output_z |-> 0, s_done |-> FALSE,
      ValueError |-> FALSE ]

\* every register holds a value of the range it was declared with
add_in_range(n) ==
    /\ n.a \in 0 .. 2 ^ WIDTH - 1
    /\ n.b \in 0 .. 2 ^ WIDTH - 1
    /\ n.z \in 0 .. 2 ^ WIDTH - 1
    /\ n.s_output_z \in 0 .. 2 ^ WIDTH - 1
    /\ n.a_e \in -(2 ^ EXP_BITS) .. 2 ^ EXP_BITS - 1
    /\ n.b_e \in -(2 ^ EXP_BITS) .. 2 ^ EXP_BITS - 1
    /\ n.z_e \in -(2 ^ EXP_BITS) .. 2 ^ EXP_BITS - 1
    /\ n.a_m \in 0 .. 2 ^ (MAN_BITS + 2) - 1
    /\ n.b_m \in 0 .. 2 ^ (MAN_BITS + 2) - 1
    /\ n.z_m \in 0 .. 2 ^ (MAN_BITS + 1) - 1
    /\ n.exp_diff \in -(2 ^ (EXP_BITS + 1)) .. 2 ^ (EXP_BITS + 1) - 1
    /\ n.sum_val \in 0 .. 2 ^ (MAN_BITS + 3) - 1

\* the edge commits n, or the assignment that leaves a declared range raises
add_commit(r, n) ==
    IF add_in_range(n) THEN n ELSE [r EXCEPT !.ValueError = TRUE]

\* IDLE: done is cleared; a start pulse latches both operands
add_IDLE(r, start, input_a, input_b) ==
    IF start
    THEN [r EXCEPT !.s_done = FALSE, !.a = input_a, !.b = input_b,
                   !.state = "UNPACK"]
    ELSE [r EXCEPT !.s_done = FALSE]

\* mantissa with the implicit bit for normals, none for denormals, and one
\* guard bit appended
add_unpack_m(x) ==
    IF ExpField(x) # 0
    THEN 2 ^ (MAN_BITS + 1) + 2 * ManField(x)
    ELSE 2 * ManField(x)

\* bias-removed exponent, forced to 1 - bias for denormals
add_unpack_e(x) ==
    IF ExpField(x) # 0 THEN ExpField(x) - EXP_BIAS ELSE -EXP_BIAS + 1

\* difference of the two stored exponent fields
add_unpack_exp_diff_of_unpacked(a, b) ==
    IF add_unpack_e(a) > add_unpack_e(b)
    THEN add_unpack_e(a) - add_unpack_e(b)
    ELSE add_unpack_e(b) - add_unpack_e(a)

add_unpack_exp_diff(a, b) ==
    IF ExpField(a) - EXP_BIAS > ExpField(b) - EXP_BIAS
    THEN (ExpField(a) - EXP_BIAS) - (ExpField(b) - EXP_BIAS)
    ELSE (ExpField(b) - EXP_BIAS) - (ExpField(a) - EXP_BIAS)

add_UNPACK(r) ==
    add_commit(r,
        [r EXCEPT !.a_s = SignBit(r.a),
                  !.a_e = add_unpack_e(r.a),
                  !.a_m = add_unpack_m(r.a),
                  !.b_s = SignBit(r.b),
                  !.b_e = add_unpack_e(r.b),
                  !.b_m = add_unpack_m(r.b),
                  !.exp_diff = add_unpack_exp_diff(r.a, r.b),
                  !.state = "SPECIAL_CASES"])

\* either latched operand is the NaN pattern
add_nan_operand_a_only(r) == IsNaNPattern(r.a)

add_nan_operand(r) == IsNaNPattern(r.a) \/ IsNaNPattern(r.b)

\* the NaN pattern with the sign register as it stands
add_nan_result(r) ==
    BitOr(BitOr(r.z_s * 2 ^ (WIDTH - 1), (2 ^ EXP_BITS - 1) * 2 ^ MAN_BITS),
          2 ^ MAN_BITS - 1)

\* the zero test of SPECIAL_CASES, taken on the whole word
add_is_zero_positive_only(x) == x = 0

add_is_zero(x) == ExpField(x) = 0 /\ ManField(x) = 0

add_is_max(x) == ExpField(x) = 2 ^ EXP_BITS - 1 /\ ManField(x) = 2 ^ MAN_BITS - 2

\* the largest finite magnitude with the sign both operands share
add_max_result(r) ==
    BitOr(BitOr((r.a_s * r.b_s) * 2 ^ (WIDTH - 1),
                (2 ^ EXP_BITS - 1) * 2 ^ MAN_BITS),
          2 ^ MAN_BITS - 2)

add_SPECIAL_CASES(r) ==
    add_commit(r,
        IF add_nan_operand(r)
        THEN [r EXCEPT !.z = add_nan_result(r), !.state = "PUT_Z"]
        ELSE IF add_is_zero(r.a)
        THEN [r EXCEPT !.z = IF add_is_zero(r.b)
                              THEN (r.a_s * r.b_s) * 2 ^ (WIDTH - 1)
                              ELSE r.b,
                       !.state = "PUT_Z"]
        ELSE IF add_is_zero(r.b)
        THEN [r EXCEPT !.z = r.a, !.state = "PUT_Z"]
        ELSE IF (add_is_max(r.a) \/ add_is_max(r.b)) /\ r.a_s = r.b_s
        THEN [r EXCEPT !.z = add_max_result(r), !.state = "PUT_Z"]
        ELSE [r EXCEPT !.state = "ALIGN"])

\* one right shift that keeps a shifted-out one in bit 0
add_shift_sticky(m) ==
    IF Bit(m, 0) = 1 THEN SetBit(m \div 2, 0, 1) ELSE m \div 2

\* the operand returned when b is the negligible one
add_align_larger_when_a_gt_b(r) == r.a

\* the operand returned when a is the negligible one
add_align_larger_when_a_lt_b_returns_a(r) == r.a

add_align_larger_when_a_lt_b(r) == r.b

add_ALIGN(r) ==
    add_commit(r,
        IF r.a_e > r.b_e
        THEN IF r.exp_diff > r.max_shifts
             THEN [r EXCEPT !.z = add_align_larger_when_a_gt_b(r),
                            !.state = "PUT_Z"]
             ELSE [r EXCEPT !.b_e = r.b_e + 1,
                            !.b_m = add_shift_sticky(r.b_m)]
        ELSE IF r.a_e < r.b_e
        THEN IF r.exp_diff > r.max_shifts
             THEN [r EXCEPT !.z = add_align_larger_when_a_lt_b(r),
                            !.state = "PUT_Z"]
             ELSE [r EXCEPT !.a_e = r.a_e + 1,
                            !.a_m = add_shift_sticky(r.a_m)]
        ELSE [r EXCEPT !.state = "ADD_0"])

add_ADD_0(r) ==
    add_commit(r,
        IF r.a_s = r.b_s
        THEN [r EXCEPT !.z_e = r.a_e, !.sum_val = r.a_m + r.b_m,
                       !.z_s = r.a_s, !.state = "ADD_1"]
        ELSE IF r.a_m >= r.b_m
        THEN [r EXCEPT !.z_e = r.a_e, !.sum_val = r.a_m - r.b_m,
                       !.z_s = r.a_s, !.state = "ADD_1"]
        ELSE [r EXCEPT !.z_e = r.a_e, !.sum_val = r.b_m - r.a_m,
                       !.z_s = r.b_s, !.state = "ADD_1"])

add_ADD_1(r) ==
    add_commit(r,
        IF Bit(r.sum_val, MAN_BITS + 2) = 1
        THEN [r EXCEPT !.z_m = Slice(r.sum_val, MAN_BITS + 3, 2),
                       !.guard = Bit(r.sum_val, 1),
                       !.round_bit = Bit(r.sum_val, 0),
                       !.sticky = 0,
                       !.z_e = r.z_e + 1,
                       !.state = "NORMALISE_1"]
        ELSE [r EXCEPT !.z_m = Slice(r.sum_val, MAN_BITS + 2, 1),
                       !.guard = Bit(r.sum_val, 0),
                       !.round_bit = 0,
                       !.sticky = 0,
                       !.state = "NORMALISE_1"])

add_NORMALISE_1(r) ==
    add_commit(r,
        IF Bit(r.z_m, MAN_BITS) = 0 /\ r.z_e > -EXP_BIAS + 1
        THEN [r EXCEPT !.z_e = r.z_e - 1,
                       !.z_m = SetBit(r.z_m * 2, 0, r.guard),
                       !.guard = r.round_bit,
                       !.round_bit = 0]
        ELSE [r EXCEPT !.state = "NORMALISE_2"])

add_NORMALISE_2(r) ==
    add_commit(r,
        IF r.z_e < -EXP_BIAS + 1
        THEN [r EXCEPT !.z_e = r.z_e + 1,
                       !.guard = Bit(r.z_m, 0),
                       !.z_m = r.z_m \div 2,
                       !.round_bit = r.guard,
                       !.sticky = BitOr(r.sticky, r.round_bit)]
        ELSE [r EXCEPT !.state = "ROUND"])

\* guard and (round_bit or sticky or z_m[0])
add_round_up(r) ==
    r.guard = 1 /\ (r.round_bit = 1 \/ r.sticky = 1 \/ Bit(r.z_m, 0) = 1)

add_ROUND(r) ==
    add_commit(r,
        IF add_round_up(r)
        THEN [r EXCEPT !.z_m = r.z_m + 1,
                       !.z_e = IF r.z_m = 2 ^ MAN_BITS - 1
                               THEN r.z_e + 1 ELSE r.z_e,
                       !.state = "PACK"]
        ELSE [r EXCEPT !.state = "PACK"])

\* mantissa written by the overflow clamp
add_pack_clamp_man_all_ones == 2 ^ MAN_BITS - 1

add_pack_clamp_man == 2 ^ MAN_BITS - 2

\* the packed word: default packing, then the denormal, zero and overflow
\* corrections in the order of the source
add_pack_word_keeps_zero_sign(r) ==
    LET z1 == SetSlice(r.z, MAN_BITS, 0, Slice(r.z_m, MAN_BITS, 0))
        z2 == SetSlice(z1, WIDTH - 1, MAN_BITS, r.z_e + EXP_BIAS)
        z3 == SetBit(z2, WIDTH - 1, r.z_s)
        z4 == IF r.z_e = -EXP_BIAS + 1 /\ Bit(r.z_m, MAN_BITS) = 0
              THEN SetSlice(z3, WIDTH - 1, MAN_BITS, 0) ELSE z3
        z6 == IF r.z_e >= EXP_BIAS
              THEN SetSlice(SetSlice(z4, WIDTH - 1, MAN_BITS, 2 ^ EXP_BITS - 1),
                            MAN_BITS, 0, add_pack_clamp_man)
              ELSE z4
    IN z6

add_pack_word(r) ==
    LET z1 == SetSlice(r.z, MAN_BITS, 0, Slice(r.z_m, MAN_BITS, 0))
        z2 == SetSlice(z1, WIDTH - 1, MAN_BITS, r.z_e + EXP_BIAS)
        z3 == SetBit(z2, WIDTH - 1, r.z_s)
        z4 == IF r.z_e = -EXP_BIAS + 1 /\ Bit(r.z_m, MAN_BITS) = 0
              THEN SetSlice(z3, WIDTH - 1, MAN_BITS, 0) ELSE z3
        z5 == IF r.z_e <= -EXP_BIAS + 1 /\ r.z_m = 0
              THEN SetBit(z4, WIDTH - 1, 0) ELSE z4
        z6 == IF r.z_e >= EXP_BIAS
              THEN SetSlice(SetSlice(z5, WIDTH - 1, MAN_BITS, 2 ^ EXP_BITS - 1),
                            MAN_BITS, 0, add_pack_clamp_man)
              ELSE z5
    IN z6

\* the slice assignment z.next[WIDTH-1:MAN_BITS] = z_e + EXP_BIAS raises
\* when the value does not fit the four bits of the slice
add_PACK(r) ==
    IF r.z_e + EXP_BIAS \in 0 .. 2 ^ EXP_BITS - 1
    THEN add_commit(r, [r EXCEPT !.z = add_pack_word(r), !.state = "PUT_Z"])
    ELSE [r EXCEPT !.ValueError = TRUE]

add_PUT_Z(r) ==
    [r EXCEPT !.s_output_z = r.z, !.s_done = TRUE, !.state = "IDLE"]

\* a start pulse during an operation overwrites the operand registers
add_state_machine_relatching(r, start, input_a, input_b) ==
    LET n == CASE r.state = "IDLE" -> add_IDLE(r, start, input_a, input_b)
               [] r.state = "UNPACK" -> add_UNPACK(r)
               [] r.state = "SPECIAL_CASES" -> add_SPECIAL_CASES(r)
               [] r.state = "ALIGN" -> add_ALIGN(r)
               [] r.state = "ADD_0" -> add_ADD_0(r)
               [] r.state = "ADD_1" -> add_ADD_1(r)
               [] r.state = "NORMALISE_1" -> add_NORMALISE_1(r)
               [] r.state = "NORMALISE_2" -> add_NORMALISE_2(r)
               [] r.state = "ROUND" -> add_ROUND(r)
               [] r.state = "PACK" -> add_PACK(r)
               [] r.state = "PUT_Z" -> add_PUT_Z(r)
    IN  IF r.state # "IDLE" /\ start
        THEN [n EXCEPT !.a = input_a, !.b = input_b]
        ELSE n

\* one rising clock edge of the adder with reset low
add_state_machine(r, start, input_a, input_b) ==
    CASE r.state = "IDLE" -> add_IDLE(r, start, input_a, input_b)
      [] r.state = "UNPACK" -> add_UNPACK(r)
      [] r.state = "SPECIAL_CASES" -> add_SPECIAL_CASES(r)
      [] r.state = "ALIGN" -> add_ALIGN(r)
      [] r.state = "ADD_0" -> add_ADD_0(r)
      [] r.state = "ADD_1" -> add_ADD_1(r)
      [] r.state = "NORMALISE_1" -> add_NORMALISE_1(r)
      [] r.state = "NORMALISE_2" -> add_NORMALISE_2(r)
      [] r.state = "ROUND" -> add_ROUND(r)
      [] r.state = "PACK" -> add_PACK(r)
      [] r.state = "PUT_Z" -> add_PUT_Z(r)

\* the reset branch written in the block: state and done only
add_reset_state_and_done_only(r) == [r EXCEPT !.state = "IDLE", !.s_done = FALSE]

\* a rising edge with reset high: always_seq returns every register the
\* block drives to its initial value
add_reset(r) == add_init

\* ------------------------------------------------------------------------
\* fp8_e4m3_multiply (src/hdl/components/fp8_e4m3_mult.py)
\* ------------------------------------------------------------------------
\* the registers of the multiplier with their initial values
mul_init ==
    [ state |-> "IDLE",
      a |-> 0, b |-> 0, z |-> 0,
      a_sign |-> 0, b_sign |-> 0, z_sign |-> 0,
      a_exp |-> 0, b_exp |-> 0, z_exp |-> 0,
      a_man |-> 0, b_man |-> 0,
      product |-> 0, z_man |-> 0,
      a_is_zero |-> FALSE, b_is_zero |-> FALSE,
      a_is_nan |-> FALSE, b_is_nan |-> FALSE,
      guard |-> 0, round_bit |-> 0, sticky |-> 0,
      s_output_z |-> 0, s_done |-> FALSE,
      ValueError |-> FALSE ]

\* every register holds a value of the range it was declared with
mul_in_range(n) ==
    /\ n.a \in 0 .. 2 ^ WIDTH - 1
    /\ n.b \in 0 .. 2 ^ WIDTH - 1
    /\ n.z \in 0 .. 2 ^ WIDTH - 1
    /\ n.s_output_z \in 0 .. 2 ^ WIDTH - 1
    /\ n.a_exp \in -(2 ^ (EXP_BITS + 2)) .. 2 ^ (EXP_BITS + 2) - 1
    /\ n.b_exp \in -(2 ^ (EXP_BITS + 2)) .. 2 ^ (EXP_BITS + 2) - 1
    /\ n.z_exp \in -(2 ^ (EXP_BITS + 2)) .. 2 ^ (EXP_BITS + 2) - 1
    /\ n.a_man \in 0 .. 2 ^ (MAN_BITS + 1) - 1
    /\ n.b_man \in 0 .. 2 ^ (MAN_BITS + 1) - 1
    /\ n.product \in 0 .. 2 ^ (2 * (MAN_BITS + 1)) - 1
    /\ n.z_man \in 0 .. 2 ^ (MAN_BITS + 3) - 1

mul_commit(r, n) ==
    IF mul_in_range(n) THEN n ELSE [r EXCEPT !.ValueError = TRUE]

\* IDLE: done is cleared; a start pulse latches both operands
mul_IDLE(r, start, input_a, input_b) ==
    IF start
    THEN [r EXCEPT !.s_done = FALSE, !.a = input_a, !.b = input_b,
                   !.state = "UNPACK"]
    ELSE [r EXCEPT !.s_done = FALSE]

\* mantissa with the implicit bit for normals, none for denormals
mul_unpack_man(x) ==
    IF ExpField(x) # 0 THEN 2 ^ MAN_BITS + ManField(x) ELSE ManField(x)

\* bias-removed exponent, forced to 1 - bias for denormals
mul_unpack_exp(x) ==
    IF ExpField(x) # 0 THEN ExpField(x) - EXP_BIAS ELSE 1 - EXP_BIAS

\* the mantissa register of operand b, unpacked from a instead
mul_unpack_b_man_from_a(r) == mul_unpack_man(r.a)

mul_unpack_b_man(r) == mul_unpack_man(r.b)

mul_UNPACK(r) ==
    mul_commit(r,
        [r EXCEPT !.a_sign = SignBit(r.a),
                  !.a_exp = mul_unpack_exp(r.a),
                  !.a_man = mul_unpack_man(r.a),
                  !.b_sign = SignBit(r.b),
                  !.b_exp = mul_unpack_exp(r.b),
                  !.b_man = mul_unpack_b_man(r),
                  !.a_is_zero = (ExpField(r.a) = 0 /\ ManField(r.a) = 0),
                  !.b_is_zero = (ExpField(r.b) = 0 /\ ManField(r.b) = 0),
                  !.a_is_nan = IsNaNPattern(r.a),
                  !.b_is_nan = IsNaNPattern(r.b),
                  !.state = "SPECIAL_CASES"])

\* ((1 << EXP_BITS) - 1) << MAN_BITS | (1 << (MAN_BITS - 1)), the word
\* written for a NaN operand
mul_nan_result ==
    BitOr((2 ^ EXP_BITS - 1) * 2 ^ MAN_BITS, 2 ^ (MAN_BITS - 1))

\* the zero result carries the sign register as it stands on this edge
mul_zero_result(r) == r.z_sign * 2 ^ (WIDTH - 1)

mul_SPECIAL_CASES(r) ==
    mul_commit(r,
        IF r.a_is_nan \/ r.b_is_nan
        THEN [r EXCEPT !.z_sign = BitXor(r.a_sign, r.b_sign),
                       !.z = mul_nan_result, !.state = "PUT_Z"]
        ELSE IF r.a_is_zero \/ r.b_is_zero
        THEN [r EXCEPT !.z_sign = BitXor(r.a_sign, r.b_sign),
                       !.z = mul_zero_result(r), !.state = "PUT_Z"]
        ELSE [r EXCEPT !.z_sign = BitXor(r.a_sign, r.b_sign),
                       !.state = "MULTIPLY"])

\* (z_sign << (WIDTH - 1)) | ((1 << EXP_BIAS) - 2), the word written when
\* the exponent sum alone overflows
mul_overflow_result(r) ==
    BitOr(r.z_sign * 2 ^ (WIDTH - 1), 2 ^ EXP_BIAS - 2)

mul_MULTIPLY(r) ==
    mul_commit(r,
        IF Bit(r.a_man, MAN_BITS) = 0 /\ r.a_man # 0
        THEN [r EXCEPT !.a_man = r.a_man * 2, !.a_exp = r.a_exp - 1]
        ELSE IF Bit(r.b_man, MAN_BITS) = 0 /\ r.b_man # 0
        THEN [r EXCEPT !.b_man = r.b_man * 2, !.b_exp = r.b_exp - 1]
        ELSE IF r.a_exp + r.b_exp >= EXP_BIAS + 2
        THEN [r EXCEPT !.z_exp = r.a_exp + r.b_exp,
                       !.product = r.a_man * r.b_man,
                       !.z = mul_overflow_result(r),
                       !.state = "PUT_Z"]
        ELSE [r EXCEPT !.z_exp = r.a_exp + r.b_exp,
                       !.product = r.a_man * r.b_man,
                       !.state = "NORMALIZE"])

mul_NORMALIZE(r) ==
    mul_commit(r,
        IF Bit(r.product, 2 * (MAN_BITS + 1) - 1) = 1
        THEN [r EXCEPT !.z_man = Slice(r.product, 2 * (MAN_BITS + 1) - 1,
                                       2 * (MAN_BITS + 1) - MAN_BITS - 1),
                       !.z_exp = r.z_exp + 1,
                       !.guard = Bit(r.product, 2),
                       !.round_bit = Bit(r.product, 1),
                       !.sticky = Bit(r.product, 0),
                       !.state = "ROUND"]
        ELSE [r EXCEPT !.z_man = Slice(r.product, 2 * (MAN_BITS + 1) - 2,
                                       2 * (MAN_BITS + 1) - MAN_BITS - 2),
                       !.guard = Bit(r.product, 2),
                       !.round_bit = Bit(r.product, 1),
                       !.sticky = Bit(r.product, 0),
                       !.state = "ROUND"])

\* guard and (round_bit or sticky or z_man[0])
mul_round_up(r) ==
    r.guard = 1 /\ (r.round_bit = 1 \/ r.sticky = 1 \/ Bit(r.z_man, 0) = 1)

mul_ROUND(r) ==
    mul_commit(r,
        IF mul_round_up(r)
        THEN [r EXCEPT !.z_man = r.z_man + 1,
                       !.z_exp = IF r.z_man = 2 ^ (MAN_BITS + 1) - 1
                                 THEN r.z_exp + 1 ELSE r.z_exp,
                       !.state = "PACK"]
        ELSE [r EXCEPT !.state = "PACK"])

\* the packed word: flush, denormalise, clamp or bias and concatenate
mul_pack_word(r) ==
    LET s == r.z_sign * 2 ^ (WIDTH - 1)
    IN  IF r.z_exp < -EXP_BIAS - MAN_BITS
        THEN s
        ELSE IF r.z_exp < -EXP_BIAS
        THEN IF (-EXP_BIAS - r.z_exp) <= MAN_BITS
             THEN BitOr(s, Slice(r.z_man \div (2 ^ (-EXP_BIAS - r.z_exp)),
                                 MAN_BITS, 0))
             ELSE s
        ELSE IF r.z_exp >= EXP_BIAS + 2
        THEN BitOr(BitOr(s, (2 ^ EXP_BITS - 1) * 2 ^ MAN_BITS),
                   2 ^ MAN_BITS - 2)
        ELSE BitOr(BitOr(s, (r.z_exp + EXP_BIAS) * 2 ^ MAN_BITS),
                   Slice(r.z_man, MAN_BITS, 0))

mul_PACK(r) ==
    mul_commit(r, [r EXCEPT !.z = mul_pack_word(r), !.state = "PUT_Z"])

mul_PUT_Z(r) ==
    [r EXCEPT !.s_output_z = r.z, !.s_done = TRUE, !.state = "IDLE"]

\* one rising clock edge of the multiplier with reset low
mul_state_machine(r, start, input_a, input_b) ==
    CASE r.state = "IDLE" -> mul_IDLE(r, start, input_a, input_b)
      [] r.state = "UNPACK" -> mul_UNPACK(r)
      [] r.state = "SPECIAL_CASES" -> mul_SPECIAL_CASES(r)
      [] r.state = "MULTIPLY" -> mul_MULTIPLY(r)
      [] r.state = "NORMALIZE" -> mul_NORMALIZE(r)
      [] r.state = "ROUND" -> mul_ROUND(r)
      [] r.state = "PACK" -> mul_PACK(r)
      [] r.state = "PUT_Z" -> mul_PUT_Z(r)

\* a rising edge with reset high: always_seq returns every register the
\* block drives to its initial value
mul_reset(r) == mul_init

\* ------------------------------------------------------------------------
\* fp8_e4m3_mac (instantiated by src/hdl/components/fp8_pe.py; the unit is
\* described in spec.md 4.4, its multiplier and adder are the units above)
\* ------------------------------------------------------------------------
\* the registers of the MAC: the two pipelines, the operand latches, the
\* start wires of the two arithmetic units, the holding register of the
\* product with its pending flag, the accumulator, the done pulse, the
\* output register, and the registers of the multiplier and of the adder
mac_init ==
    [ mult_state |-> "IDLE", acc_state |-> "IDLE",
      a_reg |-> 0, b_reg |-> 0,
      mult_start |-> FALSE, add_start |-> FALSE,
      product |-> 0, pending |-> FALSE,
      accumulator |-> 0,
      mac_done |-> FALSE,
      output_result |-> 0,
      mul |-> mul_init, add |-> add_init ]

\* ready_for_new, with the pending product left out of the test
mac_ready_for_new_ignores_pending(m) == m.mult_state = "IDLE"

\* ready_for_new = (multiply pipeline idle) AND (no pending product)
mac_ready_for_new(m) == m.mult_state = "IDLE" /\ ~m.pending

\* a bound check of the multiplier or of the adder has stopped the simulation
mac_ValueError(m) == m.mul.ValueError \/ m.add.ValueError

\* multiply pipeline: IDLE latches the operands on mac_start, MULTIPLY
\* raises the multiplier's start, WAIT_DONE lowers it and on the
\* multiplier's done captures the product and sets pending
mac_mult_pipeline(m, mac_start, input_a, input_b) ==
    CASE m.mult_state = "IDLE" ->
            IF mac_start
            THEN [m EXCEPT !.a_reg = input_a, !.b_reg = input_b,
                           !.mult_state = "MULTIPLY"]
            ELSE m
      [] m.mult_state = "MULTIPLY" ->
            [m EXCEPT !.mult_start = TRUE, !.mult_state = "WAIT_DONE"]
      [] m.mult_state = "WAIT_DONE" ->
            IF m.mul.s_done
            THEN [m EXCEPT !.mult_start = FALSE,
                           !.product = m.mul.s_output_z,
                           !.pending = TRUE,
                           !.mult_state = "IDLE"]
            ELSE [m EXCEPT !.mult_start = FALSE]

\* the accumulator written by UPDATE: the adder's result
mac_update_accumulator(m) == m.add.s_output_z

\* accumulate pipeline, applied to the registers n the multiply pipeline
\* leaves: IDLE clears the done pulse and takes a pending product, ADD
\* raises the adder's start, WAIT_ADD lowers it and waits for the adder's
\* done, UPDATE commits the sum, pulses mac_done and clears pending
mac_acc_pipeline(m, n) ==
    CASE m.acc_state = "IDLE" ->
            IF m.pending
            THEN [n EXCEPT !.mac_done = FALSE, !.acc_state = "ADD"]
            ELSE [n EXCEPT !.mac_done = FALSE]
      [] m.acc_state = "ADD" ->
            [n EXCEPT !.add_start = TRUE, !.acc_state = "WAIT_ADD"]
      [] m.acc_state = "WAIT_ADD" ->
            IF m.add.s_done
            THEN [n EXCEPT !.add_start = FALSE, !.acc_state = "UPDATE"]
            ELSE [n EXCEPT !.add_start = FALSE]
      [] m.acc_state = "UPDATE" ->
            [n EXCEPT !.accumulator = mac_update_accumulator(m),
                      !.mac_done = TRUE,
                      !.pending = FALSE,
                      !.acc_state = "IDLE"]

\* the output register written on a read_enable edge: the accumulator
mac_output_from_accumulator(m) == m.accumulator

\* the output register following the accumulator on every edge
mac_output_reg_ungated(m, n, read_enable) ==
    [n EXCEPT !.output_result = mac_output_from_accumulator(m)]

\* the output register follows the accumulator only while read_enable is up
mac_output_reg(m, n, read_enable) ==
    IF read_enable
    THEN [n EXCEPT !.output_result = mac_output_from_accumulator(m)]
    ELSE n

\* clear_acc that zeroes the accumulator and leaves the pending flag
mac_clear_keeps_pending(n) ==
    [n EXCEPT !.accumulator = 0,
              !.mult_state = "IDLE", !.acc_state = "IDLE",
              !.mult_start = FALSE, !.add_start = FALSE,
              !.mac_done = FALSE]

\* clear_acc zeroes the accumulator and the pending flag and aborts what is
\* in flight in the two pipelines
mac_clear(n) ==
    [n EXCEPT !.accumulator = 0, !.pending = FALSE,
              !.mult_state = "IDLE", !.acc_state = "IDLE",
              !.mult_start = FALSE, !.add_start = FALSE,
              !.mac_done = FALSE]

\* one rising clock edge of the MAC with reset low: the multiplier and the
\* adder take their edge on the wires the MAC drives, then the two
\* pipelines, the output register and clear_acc, which has the last word
mac_step(m, mac_start, clear_acc, read_enable, input_a, input_b) ==
    LET mul1 == mul_state_machine(m.mul, m.mult_start, m.a_reg, m.b_reg)
        add1 == add_state_machine(m.add, m.add_start, m.product, m.accumulator)
        n1 == mac_mult_pipeline(m, mac_start, input_a, input_b)
        n2 == mac_acc_pipeline(m, n1)
        n3 == mac_output_reg(m, n2, read_enable)
        n4 == IF clear_acc THEN mac_clear(n3) ELSE n3
    IN  IF mul1.ValueError \/ add1.ValueError
        THEN [m EXCEPT !.mul = mul1, !.add = add1]
        ELSE [n4 EXCEPT !.mul = mul1, !.add = add1]

\* a rising edge with reset high
mac_reset(m) == mac_init

\* mac_start is taken on this edge
mac_accepts(m, mac_start, clear_acc) ==
    mac_start /\ ~clear_acc /\ m.mult_state = "IDLE"

\* the accumulate pipeline commits on this edge
mac_commits(m, clear_acc) == ~clear_acc /\ m.acc_state = "UPDATE"

\* ------------------------------------------------------------------------
\* The processing element and the 2x2 processing array
\* ------------------------------------------------------------------------
rows == 2
cols == 2
data_width == 8

\* the four PEs, numbered row by row: [0,0], [0,1], [1,0], [1,1]
PEs == 1 .. rows * cols

\* the PE starts its MAC when data is valid and the MAC is ready
pe_control_logic(m, i_data_valid) == i_data_valid /\ mac_ready_for_new(m)

\* one clock edge of a PE with reset low
pe_step(m, i_a, i_b, i_data_valid, i_read_en, i_clear_acc) ==
    mac_step(m, pe_control_logic(m, i_data_valid), i_clear_acc, i_read_en,
             i_a, i_b)

\* the shadow signals: element i of a 16-bit input vector
shadow_slices(v, i) ==
    IF i = 0 THEN Slice(v, 7, 0) ELSE Slice(v, 15, 8)

\* the PE at [i,j] sees element i of the A vector and element j of the B vector
pe_a(k, i_a_vector) == shadow_slices(i_a_vector, (k - 1) \div cols)
pe_b(k, i_b_vector) == shadow_slices(i_b_vector, (k - 1) % cols)

arr_init ==
    [ pe                |-> [ k \in PEs |-> mac_init ],
      pe_done_latches   |-> [ k \in PEs |-> FALSE ],
      all_pes_done      |-> FALSE,
      output_matrix_reg |-> 0,
      ValueError        |-> FALSE ]

\* a done latch that only follows its PE's mac_done
arr_latch_follows_done(s, k) == s.pe[k].mac_done

\* a done latch is set by its PE's mac_done and otherwise keeps its value
arr_latch_next(s, k) ==
    IF s.pe[k].mac_done THEN TRUE ELSE s.pe_done_latches[k]

\* all_done taken as soon as one latch is set
arr_all_done_any(s) == \E k \in PEs : s.pe_done_latches[k]

\* all_done: the AND of the latches as they are before the edge
arr_all_done(s) == \A k \in PEs : s.pe_done_latches[k]

\* the slices temp[7:0], temp[15:8], temp[23:16], temp[31:24]
temp_hi(k) == 8 * k - 1
temp_lo(k) == 8 * (k - 1)

\* an assigned PE output that does not fit its slice raises ValueError
temp_ValueError(s) ==
    \E k \in PEs : s.pe[k].output_result >= 2 ^ (temp_hi(k) - temp_lo(k))

\* temp after the first k slice assignments
RECURSIVE temp_upto(_, _)
temp_upto(s, k) ==
    IF k = 0 THEN 0
    ELSE SetSlice(temp_upto(s, k - 1), temp_hi(k), temp_lo(k),
                  s.pe[k].output_result)

\* the sequential block of the array on an edge with reset low
pe_done_latch_logic(s, i_data_valid, i_read_en) ==
    IF i_data_valid
    THEN [s EXCEPT !.pe_done_latches = [ k \in PEs |-> FALSE ],
                   !.all_pes_done = FALSE]
    ELSE [s EXCEPT !.pe_done_latches = [ k \in PEs |-> arr_latch_next(s, k) ],
                   !.all_pes_done = arr_all_done(s),
                   !.output_matrix_reg =
                       IF i_read_en THEN temp_upto(s, rows * cols) ELSE @]

\* one clock edge of the array with reset low
arr_step(s, i_a_vector, i_b_vector, i_data_valid, i_read_en, i_clear_acc) ==
    LET pe1 == [ k \in PEs |->
                    pe_step(s.pe[k], pe_a(k, i_a_vector), pe_b(k, i_b_vector),
                            i_data_valid, i_read_en, i_clear_acc) ]
    IN  IF \/ \E k \in PEs : mac_ValueError(pe1[k])
           \/ (~i_data_valid /\ i_read_en /\ temp_ValueError(s))
        THEN [s EXCEPT !.ValueError = TRUE]
        ELSE [pe_done_latch_logic(s, i_data_valid, i_read_en)
                 EXCEPT !.pe = pe1]

arr_reset(s) == arr_init

\* the output ports
o_mac_done(s) == s.all_pes_done
o_c_matrix(s) == s.output_matrix_reg
o_ready_for_new(s) == \A k \in PEs : mac_ready_for_new(s.pe[k])

\* ------------------------------------------------------------------------
\* The integer processing element
\* ------------------------------------------------------------------------
\* the ranges of the accumulator and of the product for an accumulator of
\* acc_width bits, 2^(acc_width-1) being taken in two halves so that 32 bits
\* stay inside the integers of the checker
acc_min(acc_width) == (-(2 ^ (acc_width - 2))) * 2
acc_max(acc_width) == (2 ^ (acc_width - 2) - 1) * 2 + 1
prod_min(width) == -(2 ^ (2 * width - 1))
prod_max(width) == 2 ^ (2 * width - 1) - 1

processing_element_init ==
    [ accumulator     |-> 0,
      product_latched |-> 0,
      valid_product   |-> FALSE,
      overflow_flag   |-> FALSE,
      done_flag       |-> FALSE,
      ValueError      |-> FALSE ]

\* the product of the magnitudes
comb_product_magnitudes(i_a, i_b) ==
    (IF i_a < 0 THEN -i_a ELSE i_a) * (IF i_b < 0 THEN -i_b ELSE i_b)

\* the combinational product of the operand inputs
comb_product(i_a, i_b) == i_a * i_b

\* cycle 2 adding the product that is on the inputs now
seq_addend_live(p, i_a, i_b) == comb_product(i_a, i_b)

\* cycle 2 adds the product latched in cycle 1
seq_addend(p, i_a, i_b) == p.product_latched

\* a sum above acc_max left to wrap around
seq_clamp_high_wraps(acc_width, temp_sum) ==
    temp_sum - (acc_max(acc_width) - acc_min(acc_width) + 1)

\* a sum above acc_max is replaced by acc_max
seq_clamp_high(acc_width, temp_sum) == acc_max(acc_width)

\* cycle 2: accumulate and check overflow
seq_accumulate(p, acc_width, i_a, i_b) ==
    LET temp_sum == p.accumulator + seq_addend(p, i_a, i_b)
    IN  IF temp_sum > acc_max(acc_width)
        THEN [p EXCEPT !.accumulator = seq_clamp_high(acc_width, temp_sum),
                       !.overflow_flag = TRUE,
                       !.done_flag = TRUE, !.valid_product = FALSE]
        ELSE IF temp_sum < acc_min(acc_width)
        THEN [p EXCEPT !.accumulator = acc_min(acc_width),
                       !.overflow_flag = TRUE,
                       !.done_flag = TRUE, !.valid_product = FALSE]
        ELSE [p EXCEPT !.accumulator = temp_sum,
                       !.overflow_flag = FALSE,
                       !.done_flag = TRUE, !.valid_product = FALSE]

\* a clear that leaves the latched product valid
seq_clear_keeps_valid(p) ==
    [p EXCEPT !.accumulator = 0, !.done_flag = FALSE, !.overflow_flag = FALSE]

\* i_clear or i_reset: every register of the element back to zero
seq_clear(p) ==
    [p EXCEPT !.accumulator = 0, !.product_latched = 0,
              !.valid_product = FALSE, !.done_flag = FALSE,
              !.overflow_flag = FALSE]

\* one rising clock edge of the processing element with reset low
seq_logic(p, width, acc_width, i_a, i_b, i_enable, i_clear) ==
    IF comb_product(i_a, i_b) < prod_min(width)
       \/ comb_product(i_a, i_b) > prod_max(width)
    THEN [p EXCEPT !.ValueError = TRUE]
    ELSE IF i_clear THEN seq_clear(p)
    ELSE IF i_enable /\ ~p.valid_product
    THEN [p EXCEPT !.product_latched = comb_product(i_a, i_b),
                   !.valid_product = TRUE,
                   !.done_flag = FALSE]
    ELSE IF p.valid_product THEN seq_accumulate(p, acc_width, i_a, i_b)
    ELSE [p EXCEPT !.done_flag = FALSE]

processing_element_reset(p) == processing_element_init

\* the output ports of the element
o_result(p) == p.accumulator
o_overflow(p) == p.overflow_flag
o_done(p) == p.done_flag

\* ------------------------------------------------------------------------
\* The single-cycle integer MAC unit
\* ------------------------------------------------------------------------
\* the unit under check has unsigned 8-bit operands and an unsigned 16-bit
\* result, as in its overflow test
a_width == 8
b_width == 8
result_width == 16
result_min == 0
result_max == 2 ^ result_width

mac_unit_init == [ acc |-> 0, overflow |-> FALSE, ValueError |-> FALSE ]

\* product.next = a * b, product being an unsigned a_width + b_width bits
multiply(a, b) == a * b

multiply_in_range(a, b) ==
    multiply(a, b) >= 0 /\ multiply(a, b) < 2 ^ (a_width + b_width)

\* the accumulator wraps instead of saturating at the top
accumulate_saturated_wraps(next_val) ==
    IF next_val >= result_max THEN next_val % result_max ELSE result_min

\* the value the accumulator takes when next_val is out of range
accumulate_saturated(next_val) ==
    IF next_val >= result_max THEN result_max - 1 ELSE result_min

\* one rising clock edge with reset low
accumulate(s, a, b, enable) ==
    IF ~enable THEN s
    ELSE LET next_val == s.acc + multiply(a, b)
         IN  IF next_val >= result_max \/ next_val < result_min
             THEN [s EXCEPT !.overflow = TRUE,
                            !.acc = accumulate_saturated(next_val)]
             ELSE [s EXCEPT !.overflow = FALSE, !.acc = next_val]

\* a rising clock edge with reset high
mac_unit_reset(s) == [s EXCEPT !.acc = 0, !.overflow = FALSE]

\* result.next = acc
mac_unit_result(s) == s.acc

\* ------------------------------------------------------------------------
\* The 3x3 integer processing array
\* ------------------------------------------------------------------------
DATA_WIDTH == 8
ACC_WIDTH == 32
ARRAY_SIZE == 3
NUM_PES == 9

data_min == -(2 ^ (DATA_WIDTH - 1))
data_max == 2 ^ (DATA_WIDTH - 1) - 1

\* the nine PEs, numbered row by row, and the row and column of each
PEs_3x3 == 1 .. NUM_PES
pe_row(k) == (k - 1) \div ARRAY_SIZE
pe_col(k) == (k - 1) % ARRAY_SIZE

\* element i of a 24-bit input vector, all eight bits of it
shadow_slices_3x3_whole_byte(v, i) == Slice(v, 8 * i + 8, 8 * i)

\* element i of a 24-bit input vector as the shadow signals take it:
\* v[7:0], v[15:8], v[23:16]
shadow_slices_3x3(v, i) == Slice(v, 8 * i + 7, 8 * i)

\* a_slices and b_slices are declared intbv(0, min=data_min, max=data_max)
slice_in_range(x) == x >= data_min /\ x < data_max

\* pe_results are declared intbv(0, min=acc_min, max=acc_max)
pe_results_in_range(x) == x >= acc_min(ACC_WIDTH) /\ x < acc_max(ACC_WIDTH)

processing_array_3x3_init ==
    [ pe                 |-> [ k \in PEs_3x3 |-> processing_element_init ],
      a_slices           |-> [ i \in 0 .. ARRAY_SIZE - 1 |-> 0 ],
      b_slices           |-> [ i \in 0 .. ARRAY_SIZE - 1 |-> 0 ],
      state              |-> "IDLE",
      o_computation_done |-> FALSE,
      temp_result_matrix |-> [ k \in PEs_3x3 |-> 0 ],
      ValueError         |-> FALSE ]

\* all_pes_done: the AND of the nine done outputs
pe_done_logic(s) == \A k \in PEs_3x3 : o_done(s.pe[k])

\* o_overflow_detected: the OR of the nine overflow outputs
overflow_logic(s) == \E k \in PEs_3x3 : o_overflow(s.pe[k])

\* the control FSM on an edge with reset low
fsm_control_logic(s, i_data_valid) ==
    IF s.state = "IDLE"
    THEN [s EXCEPT !.o_computation_done = FALSE,
                   !.state = IF i_data_valid THEN "PROCESSING" ELSE "IDLE"]
    ELSE IF pe_done_logic(s)
    THEN [s EXCEPT !.state = "IDLE", !.o_computation_done = TRUE]
    ELSE [s EXCEPT !.state = "PROCESSING", !.o_computation_done = FALSE]

\* a negative PE result does not fit an unsigned 32-bit slice of the matrix
result_matrix_ValueError(s, i_clear_acc) ==
    /\ ~i_clear_acc
    /\ pe_done_logic(s)
    /\ \E k \in PEs_3x3 : o_result(s.pe[k]) < 0

\* the result matrix register, one 32-bit word per PE
result_matrix_logic(s, n, i_clear_acc) ==
    IF i_clear_acc
    THEN [n EXCEPT !.temp_result_matrix = [ k \in PEs_3x3 |-> 0 ]]
    ELSE IF pe_done_logic(s)
    THEN [n EXCEPT !.temp_result_matrix =
                       [ k \in PEs_3x3 |-> o_result(s.pe[k]) ]]
    ELSE n

\* o_result_matrix shows the register only while i_read_enable is up
output_logic(s, i_read_enable) ==
    IF i_read_enable THEN s.temp_result_matrix
    ELSE [ k \in PEs_3x3 |-> 0 ]

\* one rising clock edge of the array with reset low, the input vectors
\* having been driven before it
processing_array_3x3_step(s, i_a_vector, i_b_vector, i_data_valid, i_clear_acc) ==
    LET a1 == [ i \in 0 .. ARRAY_SIZE - 1 |->
                  shadow_slices_3x3(i_a_vector, i) ]
        b1 == [ i \in 0 .. ARRAY_SIZE - 1 |->
                  shadow_slices_3x3(i_b_vector, i) ]
        pe1 == [ k \in PEs_3x3 |->
                   seq_logic(s.pe[k], DATA_WIDTH, ACC_WIDTH,
                             a1[pe_row(k)], b1[pe_col(k)],
                             i_data_valid, i_clear_acc) ]
        n1 == fsm_control_logic(s, i_data_valid)
        n2 == result_matrix_logic(s, n1, i_clear_acc)
    IN  IF \E i \in 0 .. ARRAY_SIZE - 1 :
               ~slice_in_range(a1[i]) \/ ~slice_in_range(b1[i])
        THEN [s EXCEPT !.ValueError = TRUE]
        ELSE IF \/ \E k \in PEs_3x3 :
                      pe1[k].ValueError \/ ~pe_results_in_range(o_result(pe1[k]))
                \/ result_matrix_ValueError(s, i_clear_acc)
        THEN [s EXCEPT !.ValueError = TRUE, !.a_slices = a1, !.b_slices = b1]
        ELSE [n2 EXCEPT !.pe = pe1, !.a_slices = a1, !.b_slices = b1]

\* a rising edge with reset high; the shadow signals follow the vectors
processing_array_3x3_reset(s) ==
    [processing_array_3x3_init EXCEPT !.a_slices = s.a_slices,
                                      !.b_slices = s.b_slices]

\* ------------------------------------------------------------------------
\* Running one operation to completion
\* ------------------------------------------------------------------------
\* edges simulated after the start edge before a run is given up
RunFuel == 4 * 2 ^ EXP_BITS

RECURSIVE add_until_done(_, _)
add_until_done(r, fuel) ==
    IF r.s_done \/ r.ValueError \/ fuel = 0
    THEN r
    ELSE add_until_done(add_state_machine(r, FALSE, 0, 0), fuel - 1)

\* the registers when done is raised (or ValueError is) for an operation
\* started on (input_a, input_b) with the registers r of an idle adder
add_run(r, input_a, input_b) ==
    add_until_done(add_state_machine(r, TRUE, input_a, input_b), RunFuel)

RECURSIVE mul_until_done(_, _)
mul_until_done(r, fuel) ==
    IF r.s_done \/ r.ValueError \/ fuel = 0
    THEN r
    ELSE mul_until_done(mul_state_machine(r, FALSE, 0, 0), fuel - 1)

mul_run(r, input_a, input_b) ==
    mul_until_done(mul_state_machine(r, TRUE, input_a, input_b), RunFuel)

\* ------------------------------------------------------------------------
\* The driver: operand pairs presented on input_a, input_b
\* ------------------------------------------------------------------------
AddPairTable ==
    << <<60, 64>>,     \* 1.5 + 2.0
       <<64, 188>>,    \* 2.0 + -1.5
       <<72, 40>>,     \* 4.0 + 0.25
       <<127, 64>>,    \* NaN + 2.0
       <<240, 127>>,   \* -128 + NaN
       <<188, 255>>,   \* -1.5 + -NaN
       <<127, 127>>,   \* NaN + NaN
       <<126, 126>>,   \* max + max
       <<254, 254>>,   \* -max + -max
       <<112, 112>>,   \* 128 + 128
       <<120, 120>>,   \* 256 + 256
       <<63, 24>>,     \* 1.875 + 0.0625
       <<0, 64>>,      \* +0 + 2.0
       <<128, 128>>,   \* -0 + -0
       <<60, 188>>,    \* 1.5 + -1.5
       <<72, 1>>,      \* 4.0 + 2^-9
       <<1, 25>>,      \* 2^-9 + 0.0703125
       <<7, 1>>,       \* 7*2^-9 + 2^-9
       <<126, 188>>,   \* max + -1.5
       <<192, 56>>,    \* -2.0 + 1.0
       <<96, 80>>,     \* 32 + 8
       <<8, 136>>,     \* 2^-6 + -2^-6
       <<126, 128>>,   \* max + -0
       <<128, 1>>,     \* -0 + 2^-9
       <<0, 128>> >>   \* +0 + -0

MulPairTable ==
    << <<60, 64>>,     \* 1.5 * 2.0
       <<48, 72>>,     \* 0.5 * 4.0
       <<127, 64>>,    \* NaN * 2.0
       <<64, 127>>,    \* 2.0 * NaN
       <<127, 127>>,   \* NaN * NaN
       <<112, 112>>,   \* 128 * 128
       <<63, 120>>,    \* 1.875 * 256
       <<57, 126>>,    \* 1.125 * 448
       <<0, 192>>,     \* +0 * -2.0
       <<192, 64>>,    \* -2.0 * 2.0
       <<1, 1>>,       \* 2^-9 * 2^-9
       <<1, 48>>,      \* 2^-9 * 0.5
       <<68, 60>>,     \* 3.0 * 1.5
       <<56, 56>>,     \* 1.0 * 1.0
       <<63, 63>>,     \* 1.875 * 1.875
       <<126, 1>>,     \* 448 * 2^-9
       <<128, 128>>,   \* -0 * -0
       <<126, 64>>,    \* 448 * 2.0
       <<3, 56>>,      \* 3*2^-9 * 1.0
       <<254, 126>>,   \* -448 * 448
       <<62, 57>>,     \* 1.75 * 1.125
       <<188, 190>>,   \* -1.5 * -1.75
       <<56, 1>>,      \* 1.0 * 2^-9
       <<120, 56>>,    \* 256 * 1.0
       <<128, 192>> >> \* -0 * -2.0

MacPairTable ==
    << <<64, 68>>,     \* 2.0 * 3.0
       <<120, 56>>,    \* 256 * 1.0
       <<1, 56>>,      \* 2^-9 * 1.0
       <<127, 56>> >>  \* NaN * 1.0

AddPairs == { AddPairTable[i] : i \in 1 .. NumPairs }
MulPairs == { MulPairTable[i] : i \in 1 .. NumPairs }
MacPairs == { MacPairTable[i] : i \in 1 .. NumMacPairs }

\* signed operands of data_width bits
IntOperandTable == << -128, 127, -1, 3, 0 >>

IntOperands == { IntOperandTable[i] : i \in 1 .. NumIntOperands }

\* (a, b) of the integer MAC unit
ImacOperandTable ==
    << <<100, 100>>, <<255, 255>>, <<255, 2>>, <<0, 7>>, <<1, 1>> >>

ImacOperands == { ImacOperandTable[i] : i \in 1 .. NumImacOperands }

\* (i_a_vector, i_b_vector) of the 3x3 array, element 0 in the low byte
IntVectorTable ==
    << <<197121, 394500>>,     \* A = (1, 2, 3), B = (4, 5, 6)
       <<197374, 65921>>,      \* A = (-2, 2, 3), B = (-127, 1, 1)
       <<127, 65793>>,         \* A = (127, 0, 0), B = (1, 1, 1)
       <<8289918, 8289918>> >> \* A = B = (126, 126, 126)

IntVectors == { IntVectorTable[i] : i \in 1 .. NumIntVectors }

\* the processing element under check is built with a 16-bit accumulator, so
\* that both ends of its range are within reach of MaxPeOps products
PE_DATA_WIDTH == 8
PE_ACC_WIDTH == 16

\* (i_a_vector, i_b_vector), element 0 in the low byte
ArrayVectorTable ==
    << <<320, 14404>>,     \* A = (2.0, 2^-9), B = (3.0, 1.0)
       <<16576, 17464>>,   \* A = (-2.0, 2.0), B = (1.0, 3.0)
       <<30840, 14392>> >> \* A = (256, 256), B = (1.0, 1.0)

ArrayVectors == { ArrayVectorTable[i] : i \in 1 .. NumArrayVectors }

\* ------------------------------------------------------------------------
\* State
\* ------------------------------------------------------------------------
VARIABLES
    add,        \* registers of the adder
    add_prior,  \* registers of the adder at its last accepted start
    add_ops,    \* operations the driver has started on the adder
    add_since_reset, \* the adder's last reset edge and the starts since
    add_bus,    \* the operand pair a bench holds on the adder's input buses
    mul,        \* registers of the multiplier
    mul_prior,  \* registers of the multiplier at its last accepted start
    mul_ops,    \* operations the driver has started on the multiplier
    mul_since_reset, \* the multiplier's last reset edge and the starts since
    mac,        \* registers of the MAC
    mac_in,     \* control inputs the MAC sampled on its last edge
    mac_inflight, \* MAC operations accepted and neither committed nor aborted
    mac_ops,    \* operations the driver has started on the MAC
    arr,        \* registers of the processing array and of its four PEs
    arr_in,     \* control inputs the array sampled on its last edge
    arr_seen,   \* per PE: mac_done sampled high since the last data_valid edge
    arr_ops,    \* data_valid pulses the driver has given the array
    ipe,        \* registers of the integer processing element
    ipe_in,     \* control inputs the element sampled on its last edge
    ipe_sum,    \* exact sum of the products latched and kept since the last clear
    ipe_sat,    \* an accumulation since the last clear left the range
    ipe_ops,    \* products the driver has had the element latch
    pa3,        \* registers of the 3x3 array and of its nine elements
    pa3_in,     \* inputs the 3x3 array sampled on its last edge
    pa3_ops,    \* data_valid pulses the driver has given the 3x3 array
    pa3_pending, \* the elements accepted a pulse no done pulse has followed yet
    codec,      \* the codec's caller: raw value, decoded float, encoded value
    imac,       \* registers of the integer MAC unit
    imac_in,    \* inputs the integer MAC unit sampled on its last edge
    imac_run,   \* accumulations since reset if all were 100 * 100, else -1
    imac_ops    \* enabled edges the driver has given the integer MAC unit

vars == << add, add_prior, add_ops, add_since_reset, add_bus,
           mul, mul_prior, mul_ops, mul_since_reset,
           mac, mac_in, mac_inflight, mac_ops,
           arr, arr_in, arr_seen, arr_ops,
           ipe, ipe_in, ipe_sum, ipe_sat, ipe_ops,
           pa3, pa3_in, pa3_ops, pa3_pending, codec,
           imac, imac_in, imac_run, imac_ops >>
imac_vars == << imac, imac_in, imac_run, imac_ops >>
pa3_vars == << pa3, pa3_in, pa3_ops, pa3_pending >>
ipe_vars == << ipe, ipe_in, ipe_sum, ipe_sat, ipe_ops >>
arr_vars == << arr, arr_in, arr_seen, arr_ops >>
add_vars == << add, add_prior, add_ops, add_since_reset, add_bus >>
mul_vars == << mul, mul_prior, mul_ops, mul_since_reset >>
mac_vars == << mac, mac_in, mac_inflight, mac_ops >>
not_add_vars == << mul_vars, mac_vars, arr_vars, ipe_vars, pa3_vars, codec,
                   imac_vars >>
not_mul_vars == << add_vars, mac_vars, arr_vars, ipe_vars, pa3_vars, codec,
                   imac_vars >>
not_mac_vars == << add_vars, mul_vars, arr_vars, ipe_vars, pa3_vars, codec,
                   imac_vars >>
not_arr_vars == << add_vars, mul_vars, mac_vars, ipe_vars, pa3_vars, codec,
                   imac_vars >>
not_ipe_vars == << add_vars, mul_vars, mac_vars, arr_vars, pa3_vars, codec,
                   imac_vars >>
not_pa3_vars == << add_vars, mul_vars, mac_vars, arr_vars, ipe_vars, codec,
                   imac_vars >>
not_codec_vars == << add_vars, mul_vars, mac_vars, arr_vars, ipe_vars,
                     pa3_vars, imac_vars >>
not_imac_vars == << add_vars, mul_vars, mac_vars, arr_vars, ipe_vars,
                    pa3_vars, codec >>

\* the operands are zero and neither enable nor reset is up
imac_in_init == [ a |-> 0, b |-> 0, enable |-> FALSE, reset |-> FALSE ]

\* the vectors are zero and no control input is up
pa3_in_init ==
    [ i_a_vector |-> 0, i_b_vector |-> 0, i_data_valid |-> FALSE,
      i_read_enable |-> FALSE, i_clear_acc |-> FALSE, i_reset |-> FALSE ]

\* no control input is up
ipe_in_init == [ i_enable |-> FALSE, i_clear |-> FALSE, i_reset |-> FALSE ]

\* no control input is up
arr_in_init ==
    [ i_data_valid |-> FALSE, i_read_en |-> FALSE, i_clear_acc |-> FALSE,
      i_reset |-> FALSE ]

\* no control input is up
mac_in_init ==
    [ mac_start |-> FALSE, clear_acc |-> FALSE, read_enable |-> FALSE,
      rst |-> FALSE ]

\* the last edge was no reset edge (and cut no operation short), and no
\* operation was started since the last reset
since_reset_init == [ edge |-> FALSE, aborted |-> FALSE, ops |-> 0 ]

\* the codec's caller has decoded nothing yet
codec_init ==
    [ stage |-> "start", value |-> 0,
      float |-> [ nan |-> FALSE, neg |-> FALSE, mag |-> 0 ], raw_value |-> 0 ]

Init ==
    /\ add = add_init
    /\ add_prior = add_init
    /\ add_ops = 0
    /\ add_since_reset = since_reset_init
    /\ add_bus = << 0, 0 >>
    /\ mul = mul_init
    /\ mul_prior = mul_init
    /\ mul_ops = 0
    /\ mul_since_reset = since_reset_init
    /\ mac = mac_init
    /\ mac_in = mac_in_init
    /\ mac_inflight = 0
    /\ mac_ops = 0
    /\ arr = arr_init
    /\ arr_in = arr_in_init
    /\ arr_seen = [ k \in PEs |-> FALSE ]
    /\ arr_ops = 0
    /\ ipe = processing_element_init
    /\ ipe_in = ipe_in_init
    /\ ipe_sum = 0
    /\ ipe_sat = FALSE
    /\ ipe_ops = 0
    /\ pa3 = processing_array_3x3_init
    /\ pa3_in = pa3_in_init
    /\ pa3_ops = 0
    /\ pa3_pending = FALSE
    /\ codec = codec_init
    /\ imac = mac_unit_init
    /\ imac_in = imac_in_init
    /\ imac_run = 0
    /\ imac_ops = 0

\* ------------------------------------------------------------------------
\* Clock edges of the adder
\* ------------------------------------------------------------------------
\* an edge with reset low in a state other than IDLE; start and the operand
\* buses may carry anything
AddEdge(st) ==
    /\ ~add.ValueError
    /\ add.state = st
    /\ \E start \in BOOLEAN, p \in AddPairs :
           add' = add_state_machine(add, start, p[1], p[2])
    /\ add_since_reset' = [add_since_reset EXCEPT !.edge = FALSE, !.aborted = FALSE]
    /\ UNCHANGED << add_prior, add_ops, add_bus, not_add_vars >>

AddReset ==
    /\ ~add.ValueError
    /\ add' = add_reset(add)
    /\ add_prior' = add_init
    /\ add_since_reset' = [ edge |-> TRUE, aborted |-> add.state # "IDLE",
                             ops |-> 0 ]
    /\ UNCHANGED << add_ops, add_bus, not_add_vars >>

AddIdle ==
    /\ ~add.ValueError
    /\ add.state = "IDLE"
    /\ \E p \in AddPairs : add' = add_state_machine(add, FALSE, p[1], p[2])
    /\ add_since_reset' = [add_since_reset EXCEPT !.edge = FALSE, !.aborted = FALSE]
    /\ UNCHANGED << add_prior, add_ops, add_bus, not_add_vars >>

AddStart ==
    /\ ~add.ValueError
    /\ add.state = "IDLE"
    /\ add_ops < MaxOps
    /\ \E p \in AddPairs : add' = add_state_machine(add, TRUE, p[1], p[2])
    /\ add_prior' = add
    /\ add_ops' = add_ops + 1
    /\ add_since_reset' = [add_since_reset EXCEPT !.edge = FALSE, !.aborted = FALSE, !.ops = @ + 1]
    /\ UNCHANGED << add_bus, not_add_vars >>

AddUnpack == AddEdge("UNPACK")
AddSpecialCases == AddEdge("SPECIAL_CASES")
AddAlign == AddEdge("ALIGN")
AddAdd0 == AddEdge("ADD_0")
AddAdd1 == AddEdge("ADD_1")
AddNormalise1 == AddEdge("NORMALISE_1")
AddNormalise2 == AddEdge("NORMALISE_2")
AddRound == AddEdge("ROUND")
AddPack == AddEdge("PACK")
AddPutZ == AddEdge("PUT_Z")

\* the edges of an operation in flight
AddBusy ==
    \/ AddUnpack \/ AddSpecialCases \/ AddAlign \/ AddAdd0 \/ AddAdd1
    \/ AddNormalise1 \/ AddNormalise2 \/ AddRound \/ AddPack \/ AddPutZ

\* the adder with reset held low
NextAddRun == AddIdle \/ AddStart \/ AddBusy

NextAdd == AddReset \/ NextAddRun

SpecAdd == Init /\ [][NextAdd]_vars

\* ------------------------------------------------------------------------
\* One addition of every operand pair on an adder fresh from reset
\* ------------------------------------------------------------------------
\* the bench puts a pair on the operand buses of the idle adder
AddSweepDrive ==
    /\ add = add_init
    /\ add_ops = 0
    /\ add_bus = << 0, 0 >>
    /\ \E input_a \in 0 .. 2 ^ WIDTH - 1, input_b \in 0 .. 2 ^ WIDTH - 1 :
           add_bus' = << input_a, input_b >>
    /\ UNCHANGED << add, add_prior, add_ops, add_since_reset, not_add_vars >>

\* the edge with start high
AddSweepStart ==
    /\ add.state = "IDLE"
    /\ add_ops = 0
    /\ add' = add_state_machine(add, TRUE, add_bus[1], add_bus[2])
    /\ add_ops' = 1
    /\ UNCHANGED << add_prior, add_since_reset, add_bus, not_add_vars >>

\* the edges of the operation, start low again, up to the edge that ends
\* the done pulse
AddSweepEdge ==
    /\ ~add.ValueError
    /\ add.state # "IDLE" \/ add.s_done
    /\ add_ops = 1
    /\ add' = add_state_machine(add, FALSE, add_bus[1], add_bus[2])
    /\ UNCHANGED << add_prior, add_ops, add_since_reset, add_bus, not_add_vars >>

NextAddSweep == AddSweepDrive \/ AddSweepStart \/ AddSweepEdge

SpecAddSweep == Init /\ [][NextAddSweep]_vars

\* the bench puts a value and its negation (the sign bit flipped) on the
\* operand buses of the idle adder
AddSweepDriveNegation ==
    /\ add = add_init
    /\ add_ops = 0
    /\ add_bus = << 0, 0 >>
    /\ \E input_a \in 0 .. 2 ^ WIDTH - 1 :
           add_bus' = << input_a, (input_a + 2 ^ (WIDTH - 1)) % 2 ^ WIDTH >>
    /\ UNCHANGED << add, add_prior, add_ops, add_since_reset, not_add_vars >>

NextAddNegationSweep == AddSweepDriveNegation \/ AddSweepStart \/ AddSweepEdge

\* the bench raises start once the buses are driven and the clock keeps
\* ticking
FairSpecAddNegationSweep ==
    /\ Init
    /\ [][NextAddNegationSweep]_vars
    /\ WF_vars(AddSweepStart)
    /\ WF_vars(AddSweepEdge)

\* the clock keeps ticking and reset stays low
FairSpecAdd == Init /\ [][NextAddRun]_vars /\ WF_vars(AddBusy) /\ WF_vars(AddIdle)

\* ------------------------------------------------------------------------
\* Clock edges of the multiplier
\* ------------------------------------------------------------------------
MulEdge(st) ==
    /\ ~mul.ValueError
    /\ mul.state = st
    /\ \E start \in BOOLEAN, p \in MulPairs :
           mul' = mul_state_machine(mul, start, p[1], p[2])
    /\ mul_since_reset' = [mul_since_reset EXCEPT !.edge = FALSE, !.aborted = FALSE]
    /\ UNCHANGED << mul_prior, mul_ops, not_mul_vars >>

MulReset ==
    /\ ~mul.ValueError
    /\ mul' = mul_reset(mul)
    /\ mul_prior' = mul_init
    /\ mul_since_reset' = [ edge |-> TRUE, aborted |-> mul.state # "IDLE",
                             ops |-> 0 ]
    /\ UNCHANGED << mul_ops, not_mul_vars >>

MulIdle ==
    /\ ~mul.ValueError
    /\ mul.state = "IDLE"
    /\ \E p \in MulPairs : mul' = mul_state_machine(mul, FALSE, p[1], p[2])
    /\ mul_since_reset' = [mul_since_reset EXCEPT !.edge = FALSE, !.aborted = FALSE]
    /\ UNCHANGED << mul_prior, mul_ops, not_mul_vars >>

MulStart ==
    /\ ~mul.ValueError
    /\ mul.state = "IDLE"
    /\ mul_ops < MaxOps
    /\ \E p \in MulPairs : mul' = mul_state_machine(mul, TRUE, p[1], p[2])
    /\ mul_prior' = mul
    /\ mul_ops' = mul_ops + 1
    /\ mul_since_reset' = [mul_since_reset EXCEPT !.edge = FALSE, !.aborted = FALSE, !.ops = @ + 1]
    /\ UNCHANGED not_mul_vars

MulUnpack == MulEdge("UNPACK")
MulSpecialCases == MulEdge("SPECIAL_CASES")
MulMultiply == MulEdge("MULTIPLY")
MulNormalize == MulEdge("NORMALIZE")
MulRound == MulEdge("ROUND")
MulPack == MulEdge("PACK")
MulPutZ == MulEdge("PUT_Z")

MulBusy ==
    \/ MulUnpack \/ MulSpecialCases \/ MulMultiply \/ MulNormalize
    \/ MulRound \/ MulPack \/ MulPutZ

NextMulRun == MulIdle \/ MulStart \/ MulBusy

NextMul == MulReset \/ NextMulRun

SpecMul == Init /\ [][NextMul]_vars

FairSpecMul == Init /\ [][NextMulRun]_vars /\ WF_vars(MulBusy) /\ WF_vars(MulIdle)

\* ------------------------------------------------------------------------
\* One unit on the bench
\* ------------------------------------------------------------------------
\* a test bench builds either the adder or the multiplier: the unit that is
\* not under test never sees an edge
AddUnderTest ==
    mul = mul_init /\ mul_ops = 0 /\ mul_since_reset = since_reset_init /\ NextAdd

MulUnderTest ==
    add = add_init /\ add_ops = 0 /\ add_since_reset = since_reset_init /\ NextMul

NextAddOrMul == AddUnderTest \/ MulUnderTest

SpecAddOrMul == Init /\ [][NextAddOrMul]_vars

\* ------------------------------------------------------------------------
\* ------------------------------------------------------------------------
\* Clock edges of the MAC
\* ------------------------------------------------------------------------
\* an edge with reset low; the driver raises mac_start only while
\* ready_for_new is up
MacEdge(mac_start, clear_acc, read_enable, p) ==
    /\ ~mac_ValueError(mac)
    /\ mac_start => mac_ready_for_new(mac)
    /\ mac' = mac_step(mac, mac_start, clear_acc, read_enable, p[1], p[2])
    /\ mac_in' = IF mac_ValueError(mac') THEN mac_in
                  ELSE [ mac_start |-> mac_start, clear_acc |-> clear_acc,
                         read_enable |-> read_enable, rst |-> FALSE ]
    /\ mac_inflight' =
           IF mac_ValueError(mac') THEN mac_inflight
           ELSE IF clear_acc THEN 0
           ELSE mac_inflight
                + (IF mac_accepts(mac, mac_start, clear_acc) THEN 1 ELSE 0)
                - (IF mac_commits(mac, clear_acc) THEN 1 ELSE 0)
    /\ mac_ops' = mac_ops
                  + (IF mac_accepts(mac, mac_start, clear_acc) THEN 1 ELSE 0)
    /\ UNCHANGED not_mac_vars

MacReset ==
    /\ ~mac_ValueError(mac)
    /\ mac' = mac_reset(mac)
    /\ mac_in' = [ mac_in_init EXCEPT !.rst = TRUE ]
    /\ mac_inflight' = 0
    /\ UNCHANGED << mac_ops, not_mac_vars >>

MacTick == MacEdge(FALSE, FALSE, FALSE, << 0, 0 >>)

MacRead == MacEdge(FALSE, FALSE, TRUE, << 0, 0 >>)

MacClear == \E read_enable \in BOOLEAN : MacEdge(FALSE, TRUE, read_enable, << 0, 0 >>)

MacStart ==
    /\ mac_ops < MaxMacOps
    /\ \E p \in MacPairs, read_enable \in BOOLEAN :
           MacEdge(TRUE, FALSE, read_enable, p)

\* the clock of the MAC with reset held low
NextMacRun == MacTick \/ MacRead \/ MacClear \/ MacStart

NextMac == MacReset \/ NextMacRun

SpecMac == Init /\ [][NextMac]_vars

\* the clock keeps ticking and reset stays low
FairSpecMac == Init /\ [][NextMacRun]_vars /\ WF_vars(NextMacRun)

\* ------------------------------------------------------------------------
\* Clock edges of the processing array
\* ------------------------------------------------------------------------
\* an edge with reset low
ArrEdge(v, i_data_valid, i_read_en, i_clear_acc) ==
    /\ ~arr.ValueError
    /\ arr' = arr_step(arr, v[1], v[2], i_data_valid, i_read_en, i_clear_acc)
    /\ arr_in' = IF arr'.ValueError THEN arr_in
                 ELSE [ i_data_valid |-> i_data_valid, i_read_en |-> i_read_en,
                        i_clear_acc |-> i_clear_acc, i_reset |-> FALSE ]
    /\ arr_seen' = IF arr'.ValueError THEN arr_seen
                   ELSE IF i_data_valid THEN [ k \in PEs |-> FALSE ]
                   ELSE [ k \in PEs |-> arr_seen[k] \/ arr.pe[k].mac_done ]
    /\ arr_ops' = arr_ops + (IF i_data_valid THEN 1 ELSE 0)
    /\ UNCHANGED not_arr_vars

ArrReset ==
    /\ ~arr.ValueError
    /\ arr' = arr_reset(arr)
    /\ arr_in' = [ arr_in_init EXCEPT !.i_reset = TRUE ]
    /\ arr_seen' = [ k \in PEs |-> FALSE ]
    /\ UNCHANGED << arr_ops, not_arr_vars >>

ArrTick == ArrEdge(<< 0, 0 >>, FALSE, FALSE, FALSE)

ArrRead == ArrEdge(<< 0, 0 >>, FALSE, TRUE, FALSE)

ArrClear == \E i_read_en \in BOOLEAN : ArrEdge(<< 0, 0 >>, FALSE, i_read_en, TRUE)

ArrDataValid ==
    /\ arr_ops < MaxArrayOps
    /\ \E v \in ArrayVectors, i_read_en \in BOOLEAN :
           ArrEdge(v, TRUE, i_read_en, FALSE)

NextArray == ArrReset \/ ArrTick \/ ArrRead \/ ArrClear \/ ArrDataValid

SpecArray == Init /\ [][NextArray]_vars

\* ------------------------------------------------------------------------
\* Clock edges of the integer processing element
\* ------------------------------------------------------------------------
\* the edge latches a product: enable with no product pending and no clear
PeAccepts(i_enable, i_clear) == i_enable /\ ~i_clear /\ ~ipe.valid_product

\* the edge accumulates the pending product
PeAccumulates(i_clear) == ~i_clear /\ ipe.valid_product

\* an edge with reset low; the operand inputs may carry anything
PeEdge(i_a, i_b, i_enable, i_clear) ==
    /\ ~ipe.ValueError
    /\ ipe' = seq_logic(ipe, PE_DATA_WIDTH, PE_ACC_WIDTH, i_a, i_b,
                        i_enable, i_clear)
    /\ ipe_in' = [ i_enable |-> i_enable, i_clear |-> i_clear,
                   i_reset |-> FALSE ]
    /\ ipe_sum' = IF i_clear THEN 0
                  ELSE IF PeAccepts(i_enable, i_clear) THEN ipe_sum + i_a * i_b
                  ELSE ipe_sum
    /\ ipe_sat' = IF i_clear THEN FALSE
                  ELSE IF PeAccumulates(i_clear)
                  THEN \/ ipe_sat
                       \/ ipe.accumulator + ipe.product_latched
                              > acc_max(PE_ACC_WIDTH)
                       \/ ipe.accumulator + ipe.product_latched
                              < acc_min(PE_ACC_WIDTH)
                  ELSE ipe_sat
    /\ ipe_ops' = ipe_ops + (IF PeAccepts(i_enable, i_clear) THEN 1 ELSE 0)
    /\ UNCHANGED not_ipe_vars

PeReset ==
    /\ ~ipe.ValueError
    /\ ipe' = processing_element_reset(ipe)
    /\ ipe_in' = [ ipe_in_init EXCEPT !.i_reset = TRUE ]
    /\ ipe_sum' = 0
    /\ ipe_sat' = FALSE
    /\ UNCHANGED << ipe_ops, not_ipe_vars >>

PeTick == \E i_a, i_b \in IntOperands : PeEdge(i_a, i_b, FALSE, FALSE)

PeEnable ==
    /\ ipe_ops < MaxPeOps
    /\ \E i_a, i_b \in IntOperands : PeEdge(i_a, i_b, TRUE, FALSE)

PeClear ==
    \E i_a, i_b \in IntOperands, i_enable \in BOOLEAN :
        PeEdge(i_a, i_b, i_enable, TRUE)

NextPe == PeReset \/ PeTick \/ PeEnable \/ PeClear

SpecPe == Init /\ [][NextPe]_vars

\* ------------------------------------------------------------------------
\* Clock edges of the 3x3 integer processing array
\* ------------------------------------------------------------------------
\* the elements share their control inputs and run in lockstep: on an edge
\* without clear they latch a product when i_data_valid is up and they hold
\* none
pes_accept(s, i_data_valid, i_clear_acc) ==
    i_data_valid /\ ~i_clear_acc /\ \A k \in PEs_3x3 : ~s.pe[k].valid_product

\* the edge raises o_computation_done: the FSM is in PROCESSING and samples
\* the done flags the last accumulation has set
done_pulse_raised(s) == s.state = "PROCESSING" /\ pe_done_logic(s)

\* a pulse accepted on this edge is owed a done pulse; a done pulse raised
\* on this edge answers the accumulation before it; a clear drops the
\* operation
pending_after_edge(s, pending, i_data_valid, i_clear_acc) ==
    IF i_clear_acc THEN FALSE
    ELSE IF pes_accept(s, i_data_valid, i_clear_acc) THEN TRUE
    ELSE IF done_pulse_raised(s) THEN FALSE
    ELSE pending

\* an edge with reset low, after the driver has put v on the vector inputs
Pa3Edge(v, i_data_valid, i_read_enable, i_clear_acc) ==
    /\ ~pa3.ValueError
    /\ pa3' = processing_array_3x3_step(pa3, v[1], v[2], i_data_valid,
                                        i_clear_acc)
    /\ pa3_in' = [ i_a_vector |-> v[1], i_b_vector |-> v[2],
                   i_data_valid |-> i_data_valid,
                   i_read_enable |-> i_read_enable,
                   i_clear_acc |-> i_clear_acc, i_reset |-> FALSE ]
    /\ pa3_ops' = pa3_ops + (IF i_data_valid THEN 1 ELSE 0)
    /\ pa3_pending' = pending_after_edge(pa3, pa3_pending, i_data_valid,
                                         i_clear_acc)
    /\ UNCHANGED not_pa3_vars

\* the vectors the driver left on the inputs
Pa3Held == << pa3_in.i_a_vector, pa3_in.i_b_vector >>

Pa3Reset ==
    /\ ~pa3.ValueError
    /\ pa3' = processing_array_3x3_reset(pa3)
    /\ pa3_in' = [ pa3_in EXCEPT !.i_data_valid = FALSE,
                                 !.i_read_enable = FALSE,
                                 !.i_clear_acc = FALSE, !.i_reset = TRUE ]
    /\ pa3_pending' = FALSE
    /\ UNCHANGED << pa3_ops, not_pa3_vars >>

Pa3Tick == Pa3Edge(Pa3Held, FALSE, FALSE, FALSE)

Pa3Read == Pa3Edge(Pa3Held, FALSE, TRUE, FALSE)

Pa3Clear == Pa3Edge(Pa3Held, FALSE, FALSE, TRUE)

Pa3DataValid ==
    /\ pa3_ops < MaxIntArrayOps
    /\ \E v \in IntVectors : Pa3Edge(v, TRUE, FALSE, FALSE)

NextPa3 == Pa3Reset \/ Pa3Tick \/ Pa3Read \/ Pa3Clear \/ Pa3DataValid

SpecPa3 == Init /\ [][NextPa3]_vars

\* the clock keeps ticking
FairSpecPa3 == SpecPa3 /\ WF_vars(Pa3Tick)

\* ------------------------------------------------------------------------
\* Clock edges of the integer MAC unit
\* ------------------------------------------------------------------------
\* an edge with reset low, after the driver has put a and b on the inputs
ImacEdge(a, b, enable) ==
    /\ ~imac.ValueError
    /\ imac' = IF multiply_in_range(a, b) THEN accumulate(imac, a, b, enable)
               ELSE [imac EXCEPT !.ValueError = TRUE]
    /\ imac_in' = [ a |-> a, b |-> b, enable |-> enable, reset |-> FALSE ]
    /\ imac_run' = IF ~enable THEN imac_run
                   ELSE IF imac_run >= 0 /\ a = 100 /\ b = 100
                   THEN imac_run + 1
                   ELSE -1
    /\ imac_ops' = imac_ops + (IF enable THEN 1 ELSE 0)
    /\ UNCHANGED not_imac_vars

ImacReset ==
    /\ ~imac.ValueError
    /\ imac' = mac_unit_reset(imac)
    /\ imac_in' = [ imac_in EXCEPT !.enable = FALSE, !.reset = TRUE ]
    /\ imac_run' = 0
    /\ UNCHANGED << imac_ops, not_imac_vars >>

ImacTick == ImacEdge(imac_in.a, imac_in.b, FALSE)

ImacEnable ==
    /\ imac_ops < MaxImacOps
    /\ \E p \in ImacOperands : ImacEdge(p[1], p[2], TRUE)

NextImac == ImacReset \/ ImacTick \/ ImacEnable

SpecImac == Init /\ [][NextImac]_vars

\* ------------------------------------------------------------------------
\* The E4M3 codec of the test helpers
\* ------------------------------------------------------------------------
BIAS == 7
NAN == 127
MAX_POS == 126
MAX_FLOAT_VALUE == 448

\* a Python float the codec handles is NaN or a sign and a magnitude; every
\* magnitude the codec computes on the way is a whole number of 2^-16
FloatUnit == 2 ^ 16

\* every raw value E4M3Format accepts
RawValues == 0 .. 2 ^ WIDTH - 1

\* E4M3Format.to_float
to_float(value) ==
    LET sign == (value \div 2 ^ 7) % 2
        exp  == (value \div 2 ^ 3) % 16
        frac == value % 8
    IN  IF value = NAN \/ value = NAN + 128
        THEN [ nan |-> TRUE, neg |-> FALSE, mag |-> 0 ]
        ELSE IF exp = 0 /\ frac = 0
        THEN [ nan |-> FALSE, neg |-> sign = 1, mag |-> 0 ]
        ELSE LET normalized_frac8 == IF exp = 0 THEN frac ELSE frac + 8
                 unbiased_exp == IF exp = 0 THEN -6 ELSE exp - BIAS
             IN  [ nan |-> FALSE, neg |-> sign = 1,
                   mag |-> normalized_frac8 * 2 ^ (unbiased_exp + 13) ]

\* while f >= 2.0 and exp < 7: f /= 2.0; exp += 1
RECURSIVE find_exponent_high(_, _)
find_exponent_high(f, exp) ==
    IF f >= 2 * FloatUnit /\ exp < 7
    THEN find_exponent_high(f \div 2, exp + 1)
    ELSE << f, exp >>

\* while f < 1.0 and exp > -7: f *= 2.0; exp -= 1
RECURSIVE find_exponent_low(_, _)
find_exponent_low(f, exp) ==
    IF f < FloatUnit /\ exp > -7
    THEN find_exponent_low(f * 2, exp - 1)
    ELSE << f, exp >>

\* Python's round of n / d for n >= 0: to the nearest, ties to even
py_round(n, d) ==
    LET q == n \div d
        r == n % d
    IN  IF 2 * r > d THEN q + 1
        ELSE IF 2 * r < d THEN q
        ELSE IF q % 2 = 0 THEN q ELSE q + 1

\* E4M3Format._float_to_e4m3; sign | x is sign + x, x being below 0x80
float_to_e4m3(x) ==
    IF x.nan THEN NAN
    ELSE IF x.mag = 0 THEN 0
    ELSE
    LET sign == IF x.neg THEN 128 ELSE 0
        hi == find_exponent_high(x.mag, 0)
        lo == find_exponent_low(hi[1], hi[2])
        f == lo[1]
        exp == lo[2]
        denormal_frac == py_round(f * 8, FloatUnit)
        normal_frac == py_round((f - FloatUnit) * 8, FloatUnit)
    IN  IF x.mag = 256 * FloatUnit THEN sign + 120
        ELSE IF x.mag > MAX_FLOAT_VALUE * FloatUnit THEN sign + MAX_POS
        ELSE IF exp <= -7
        THEN sign + (IF denormal_frac > 7 THEN 7 ELSE denormal_frac)
        ELSE IF exp > 7 THEN sign + MAX_POS
        ELSE IF normal_frac > 7
        THEN IF exp + BIAS + 1 > 14 THEN sign + MAX_POS
             ELSE sign + (exp + BIAS + 1) * 8
        ELSE sign + (exp + BIAS) * 8 + normal_frac

\* float_to_fp8(f) is E4M3Format(f).raw_value for a float f
float_to_fp8(x) == float_to_e4m3(x)

\* fp8_to_float(b) is E4M3Format(b).to_float() for an int b
fp8_to_float(value) == to_float(value)

\* the caller decodes a raw value of its choice
CodecDecode ==
    /\ codec.stage # "decoded"
    /\ \E value \in RawValues :
           codec' = [ stage |-> "decoded", value |-> value,
                      float |-> fp8_to_float(value), raw_value |-> 0 ]
    /\ UNCHANGED not_codec_vars

\* the caller encodes the float it got
CodecEncode ==
    /\ codec.stage = "decoded"
    /\ codec' = [ codec EXCEPT !.stage = "encoded",
                               !.raw_value = float_to_fp8(codec.float) ]
    /\ UNCHANGED not_codec_vars

NextCodec == CodecDecode \/ CodecEncode

SpecCodec == Init /\ [][NextCodec]_vars

\* ------------------------------------------------------------------------
\* Exact values
\* ------------------------------------------------------------------------
\* a bit pattern has the magnitude E4M3_significand * 2^E4M3_scale in units
\* of 2^-9, the least denormal step: mantissa/8 * 2^-6 for exponent field 0
\* and (1 + mantissa/8) * 2^(exponent - 7) otherwise
E4M3_significand(x) ==
    IF ExpField(x) = 0 THEN ManField(x) ELSE 2 ^ MAN_BITS + ManField(x)

E4M3_scale(x) == IF ExpField(x) = 0 THEN 0 ELSE ExpField(x) - 1

E4M3_magnitude(x) == E4M3_significand(x) * 2 ^ E4M3_scale(x)

\* the exponent field of the binade that holds m * 2^-(9+k)
RECURSIVE BinadeOf(_, _, _)
BinadeOf(m, k, e) ==
    IF e = 2 ^ EXP_BITS \/ m < 2 ^ (MAN_BITS + 1) * 2 ^ (e - 1 + k)
    THEN e
    ELSE BinadeOf(m, k, e + 1)

\* the seven magnitude bits of m * 2^-(9+k) rounded to nearest, ties to
\* even, with gradual underflow, saturated to exponent 15 mantissa 6
RoundNearestEven(m, k) ==
    LET e == BinadeOf(m, k, 1)
        q == 2 ^ (e - 1 + k)
        t == m \div q
        rem == m % q
        up == 2 * rem > q \/ (2 * rem = q /\ t % 2 = 1)
        t1 == IF up THEN t + 1 ELSE t
        e1 == IF t1 = 2 ^ (MAN_BITS + 1) THEN e + 1 ELSE e
        t2 == IF t1 = 2 ^ (MAN_BITS + 1) THEN 2 ^ MAN_BITS ELSE t1
    IN  IF e1 > 2 ^ EXP_BITS - 1 \/ t1 > 2 ^ (MAN_BITS + 1)
           \/ (e1 = 2 ^ EXP_BITS - 1 /\ t2 = 2 ^ (MAN_BITS + 1) - 1)
        THEN (2 ^ EXP_BITS - 1) * 2 ^ MAN_BITS + 2 ^ MAN_BITS - 2
        ELSE IF t2 < 2 ^ MAN_BITS
        THEN t2
        ELSE e1 * 2 ^ MAN_BITS + (t2 - 2 ^ MAN_BITS)

\* the signed sum of two patterns in units of 2^-9
ExactSum(a, b) ==
    (IF SignBit(a) = 1 THEN -E4M3_magnitude(a) ELSE E4M3_magnitude(a))
    + (IF SignBit(b) = 1 THEN -E4M3_magnitude(b) ELSE E4M3_magnitude(b))

Abs(i) == IF i < 0 THEN -i ELSE i

\* the correctly rounded sum; an exact zero is +0
RoundedSum(a, b) ==
    LET s == ExactSum(a, b)
    IN  IF s = 0 THEN 0
        ELSE (IF s < 0 THEN 2 ^ (WIDTH - 1) ELSE 0) + RoundNearestEven(Abs(s), 0)

\* the product has the magnitude ProductSignificand * 2^ProductScale in
\* units of 2^-18
ProductSignificand(a, b) == E4M3_significand(a) * E4M3_significand(b)
ProductScale(a, b) == E4M3_scale(a) + E4M3_scale(b)

\* the exact product is larger in magnitude than 448 = 14 * 2^14 * 2^-9
ProductExceedsMax(a, b) ==
    IF ProductScale(a, b) >= 23
    THEN ProductSignificand(a, b) * 2 ^ (ProductScale(a, b) - 23) > 14
    ELSE ProductSignificand(a, b) > 14 * 2 ^ (23 - ProductScale(a, b))

\* the correctly rounded product with the XOR of the operand signs
RoundedProduct(a, b) ==
    BitXor(SignBit(a), SignBit(b)) * 2 ^ (WIDTH - 1)
    + (IF ProductScale(a, b) >= 9
       THEN RoundNearestEven(
                ProductSignificand(a, b) * 2 ^ (ProductScale(a, b) - 9), 0)
       ELSE RoundNearestEven(ProductSignificand(a, b),
                             9 - ProductScale(a, b)))

\* the operands latched for the operation whose done pulse is up
AddDoneNoNaN == add.s_done /\ ~IsNaNPattern(add.a) /\ ~IsNaNPattern(add.b)
MulDoneNoNaN == mul.s_done /\ ~IsNaNPattern(mul.a) /\ ~IsNaNPattern(mul.b)

\* ------------------------------------------------------------------------
\* Properties
\* ------------------------------------------------------------------------
\* C1: every start the adder samples in IDLE is followed by done, done is
\* high for one cycle only and only on the edge after PUT_Z, and output_z
\* holds the packed result while done is high.
C1_StartFollowedByOneDonePulse ==
    /\ (add.state = "UNPACK") ~> add.s_done
    /\ [][add.s_done => ~add.s_done']_vars
    /\ [][add.s_done' => add.state = "PUT_Z"]_vars
    /\ [](add.s_done => add_ops > 0 /\ add.s_output_z = add.z)

\* C2: an operation the adder has started reaches PUT_Z and from there IDLE.
C2_OperationTerminates ==
    /\ [](add.state \notin {"IDLE", "PUT_Z"} => <>(add.state = "PUT_Z"))
    /\ [](add.state = "PUT_Z" => <>(add.state = "IDLE"))

\* C3: when an operand of a completed addition is a NaN pattern, the output
\* has exponent field 15 and mantissa 7.
C3_AdderNaNPropagation ==
    (add.s_done /\ (IsNaNPattern(add.a) \/ IsNaNPattern(add.b)))
        => IsNaNPattern(add.s_output_z)

C3_Witness ==
    /\ add.s_done
    /\ ~IsNaNPattern(add.a)
    /\ ExpField(add.a) # 0
    /\ IsNaNPattern(add.b)
    /\ IsNaNPattern(add.s_output_z)

\* C4: when an operand of a completed multiplication is a NaN pattern, the
\* output is 0x7F.
C4_MultiplierNaNPropagation ==
    (mul.s_done /\ (IsNaNPattern(mul.a) \/ IsNaNPattern(mul.b)))
        => mul.s_output_z = 127

\* C5: a completed multiplication of non-NaN, non-zero operands whose exact
\* product exceeds 448 in magnitude outputs 0x7E with the XOR of the signs.
C5_MultiplierOverflowSaturates ==
    (/\ MulDoneNoNaN
     /\ ProductExceedsMax(mul.a, mul.b))
        => mul.s_output_z
             = BitXor(SignBit(mul.a), SignBit(mul.b)) * 2 ^ (WIDTH - 1) + 126

\* C6: a completed addition of non-NaN operands never outputs a NaN
\* pattern, and max + max is max for either sign.
C6_AdderNeverFabricatesNaN ==
    AddDoneNoNaN =>
        /\ ~IsNaNPattern(add.s_output_z)
        /\ (add.a = 126 /\ add.b = 126 => add.s_output_z = 126)
        /\ (add.a = 254 /\ add.b = 254 => add.s_output_z = 254)

C6_Witness ==
    /\ add.s_done
    /\ add.a = 112 /\ add.b = 112
    /\ add.s_output_z = 126

\* C7: a completed addition of non-NaN operands outputs the exact sum
\* rounded to nearest even, saturated beyond 448 (either zero for a sum
\* that is exactly zero).
C7_AdderCorrectlyRounded ==
    AddDoneNoNaN =>
        IF ExactSum(add.a, add.b) = 0
        THEN add.s_output_z \in {0, 2 ^ (WIDTH - 1)}
        ELSE add.s_output_z = RoundedSum(add.a, add.b)

\* C8: a completed multiplication of non-NaN, non-zero operands outputs the
\* exact product rounded to nearest even, flushed, denormalised or saturated,
\* with the XOR of the operand signs.
C8_MultiplierCorrectlyRounded ==
    (MulDoneNoNaN /\ E4M3_magnitude(mul.a) # 0 /\ E4M3_magnitude(mul.b) # 0)
        => mul.s_output_z = RoundedProduct(mul.a, mul.b)

\* C9: an addition of non-NaN operands ends as the addition of the swapped
\* operands started from the same registers does: the same output, or no
\* output for either.
C9_AdderCommutes ==
    (/\ add.s_done \/ add.ValueError
     /\ ~IsNaNPattern(add.a) /\ ~IsNaNPattern(add.b))
        => LET sw == add_run(add_prior, add.b, add.a)
           IN  /\ sw.ValueError = add.ValueError
               /\ sw.s_done = add.s_done
               /\ sw.s_output_z = add.s_output_z

C9_Witness ==
    /\ add.s_done
    /\ add.a = 72 /\ add.b = 1
    /\ add.s_output_z = 72
    /\ add_prior.z_s = 1

\* C10: a multiplication of non-NaN operands ends as the multiplication of
\* the swapped operands started from the same registers does.
C10_MultiplierCommutes ==
    (/\ mul.s_done \/ mul.ValueError
     /\ ~IsNaNPattern(mul.a) /\ ~IsNaNPattern(mul.b))
        => LET sw == mul_run(mul_prior, mul.b, mul.a)
           IN  /\ sw.ValueError = mul.ValueError
               /\ sw.s_done = mul.s_done
               /\ sw.s_output_z = mul.s_output_z

C10_Witness ==
    /\ mul.s_done
    /\ mul.a = 1 /\ mul.b = 48
    /\ mul_prior.z_sign = 1


\* C11: a completed addition of non-NaN operands of which exactly one is a
\* zero outputs the other operand bit for bit, and a completed addition of
\* two zeros outputs the zero whose sign is the AND of the operand signs.
C11_AdderZeroIdentity ==
    AddDoneNoNaN =>
        /\ (E4M3_magnitude(add.a) = 0 /\ E4M3_magnitude(add.b) # 0
                => add.s_output_z = add.b)
        /\ (E4M3_magnitude(add.b) = 0 /\ E4M3_magnitude(add.a) # 0
                => add.s_output_z = add.a)
        /\ (E4M3_magnitude(add.a) = 0 /\ E4M3_magnitude(add.b) = 0
                => add.s_output_z
                     = (SignBit(add.a) * SignBit(add.b)) * 2 ^ (WIDTH - 1))

C11_Witness ==
    /\ add.s_done
    /\ add.a = 128 /\ add.b = 1
    /\ add.s_output_z = 1
    /\ add_ops = MaxOps

\* C12: a completed multiplication of a non-NaN operand by 0x38 (1.0), on
\* either side, outputs that operand bit for bit.
C12_MultiplierIdentity ==
    MulDoneNoNaN =>
        /\ (mul.b = 56 => mul.s_output_z = mul.a)
        /\ (mul.a = 56 => mul.s_output_z = mul.b)

\* C13: a completed multiplication of non-NaN operands of which one is a
\* zero outputs the zero whose sign is the XOR of the operand signs,
\* whatever was multiplied before.
C13_MultiplierZeroSign ==
    (MulDoneNoNaN /\ (E4M3_magnitude(mul.a) = 0 \/ E4M3_magnitude(mul.b) = 0))
        => mul.s_output_z
             = BitXor(SignBit(mul.a), SignBit(mul.b)) * 2 ^ (WIDTH - 1)

\* ------------------------------------------------------------------------
\* C14: the MAC's ready_for_new is down exactly while an accepted operation
\* is in flight: from the state after the edge that accepted mac_start to
\* the edge that commits the sum and raises mac_done (or aborts it), and up
\* in every other state.
\* ------------------------------------------------------------------------
C14_MacHandshake ==
    ~mac_ValueError(mac) => (mac_ready_for_new(mac) <=> mac_inflight = 0)

\* the product is captured and the sum is not yet committed
C14_Witness ==
    /\ mac_inflight = 1
    /\ mac.mult_state = "IDLE"
    /\ mac.pending
    /\ mac.acc_state = "WAIT_ADD"
    /\ ~mac_ready_for_new(mac)

\* ------------------------------------------------------------------------
\* C15: with mac_start raised only while ready_for_new is up, at most one
\* product is pending, the accumulate pipeline runs an addition only on a
\* product the multiplier has delivered, mac_done lasts one cycle, and every
\* accepted mac_start is followed by its accumulator update and mac_done
\* pulse (or by a clear_acc that discards it): no product is dropped.
\* ------------------------------------------------------------------------
\* the ordering and capacity part, state by state
C15_OrderingAndCapacity ==
    /\ mac_inflight \in { 0, 1 }
    /\ mac.pending => mac.mult_state = "IDLE" /\ mac_inflight = 1
    /\ mac.acc_state # "IDLE" => mac.pending
    /\ mac.add_start => mac.pending
    /\ mac.mac_done => mac.acc_state = "IDLE"

C15_MacOrdering ==
    /\ []C15_OrderingAndCapacity
    /\ (mac_inflight = 1) ~> (mac_inflight = 0)

\* ------------------------------------------------------------------------
\* C16: the MAC's output_result changes only on a clock edge that samples
\* read_enable high (or on reset); accumulator updates, clear_acc and
\* mac_done with read_enable low leave it as it was, and the accumulator is
\* written only by UPDATE, clear_acc and reset, never by the output register.
\* ------------------------------------------------------------------------
C16_MacOutputGating ==
    [][ /\ mac'.output_result # mac.output_result
            => mac_in'.read_enable \/ mac_in'.rst
        /\ mac'.accumulator # mac.accumulator
            => mac.acc_state = "UPDATE" \/ mac_in'.clear_acc \/ mac_in'.rst
      ]_vars

\* the sum 6.0 is committed with read_enable low and the output still shows 0
C16_Witness ==
    /\ mac.mac_done
    /\ ~mac_in.read_enable
    /\ mac.accumulator = 76
    /\ mac.output_result = 0

\* ------------------------------------------------------------------------
\* C17: an edge that samples clear_acc, in any state of the MAC, leaves the
\* accumulator zero and the pending flag false with nothing in flight; a
\* zero accumulator stays zero while no operation accepted after the clear
\* is in flight, and an edge with read_enable then puts 0x00 on
\* output_result.
\* ------------------------------------------------------------------------
C17_MacClear ==
    [][ ~mac_ValueError(mac') =>
          /\ mac_in'.clear_acc
                => mac'.accumulator = 0 /\ ~mac'.pending /\ mac_inflight' = 0
          /\ (mac_inflight = 0 /\ mac.accumulator = 0) => mac'.accumulator = 0
          /\ (mac.accumulator = 0 /\ mac_in'.read_enable)
                => mac'.output_result = 0
      ]_vars

\* the second accumulation is cleared while the adder is still running on
\* it, after the first sum was read out
C17_Witness ==
    /\ mac_in.clear_acc
    /\ mac_ops = MaxMacOps
    /\ mac.add.state # "IDLE"
    /\ mac.output_result # 0
    /\ mac.accumulator = 0
    /\ ~mac.pending

\* ------------------------------------------------------------------------
\* C18: the array's o_mac_done is up only if every one of the four PEs has
\* had its mac_done sampled high on an edge since the most recent edge that
\* sampled i_data_valid; it is down in the state that edge leaves and stays
\* down until then.
\* ------------------------------------------------------------------------
C18_ArrayBarrier ==
    /\ o_mac_done(arr) => \A k \in PEs : arr_seen[k]
    /\ arr_in.i_data_valid => ~o_mac_done(arr)

\* the barrier of the second operation is up
C18_Witness ==
    /\ o_mac_done(arr)
    /\ arr_ops = MaxArrayOps
    /\ \A k \in PEs : arr_seen[k]
    /\ ~arr.ValueError

\* ------------------------------------------------------------------------
\* C19: a per-PE done latch that is set stays set across every clock edge
\* that samples neither i_data_valid nor reset; so once all four latches are
\* set, all_pes_done comes up and stays up until the next i_data_valid
\* pulse, although each mac_done lasts one cycle and the PEs finish in
\* different cycles.
\* ------------------------------------------------------------------------
C19_DoneLatchSticky ==
    [][ (~arr'.ValueError /\ ~arr_in'.i_data_valid /\ ~arr_in'.i_reset) =>
          /\ \A k \in PEs : arr.pe_done_latches[k] => arr'.pe_done_latches[k]
          /\ (\A k \in PEs : arr.pe_done_latches[k]) => arr'.all_pes_done
          /\ arr.all_pes_done => arr'.all_pes_done
      ]_vars

\* every latch is still set after all mac_done pulses are over
C19_Witness ==
    /\ \A k \in PEs : arr.pe_done_latches[k] /\ ~arr.pe[k].mac_done
    /\ arr.all_pes_done
    /\ ~arr_in.i_data_valid
    /\ ~arr_in.i_reset
    /\ ~arr.ValueError

\* ------------------------------------------------------------------------
\* C20: the array's output_matrix_reg is written from the PE outputs only on
\* a clock edge at which i_read_en is high and all_pes_done is true; across
\* every other edge (reset apart) it keeps its value.
\* ------------------------------------------------------------------------
C20_ArrayOutputGating ==
    [][ (arr'.output_matrix_reg # arr.output_matrix_reg /\ ~arr_in'.i_reset)
            => arr_in'.i_read_en /\ arr.all_pes_done
      ]_vars

\* ------------------------------------------------------------------------
\* C22: whatever the enable, clear and reset inputs and the operands, the
\* accumulator of the integer processing element lies in
\* [-(2^(acc_width-1)), 2^(acc_width-1)-1]; an accumulation whose true sum
\* accumulator + latched product leaves that range puts exactly the nearer
\* boundary in the accumulator and o_overflow is up after that edge.
\* ------------------------------------------------------------------------
C22_PeSaturation ==
    /\ [](/\ o_result(ipe) >= acc_min(PE_ACC_WIDTH)
          /\ o_result(ipe) <= acc_max(PE_ACC_WIDTH))
    /\ [][ (ipe.valid_product /\ ~ipe_in'.i_clear /\ ~ipe_in'.i_reset) =>
             LET true_sum == ipe.accumulator + ipe.product_latched
             IN  /\ true_sum > acc_max(PE_ACC_WIDTH)
                     => /\ o_result(ipe') = acc_max(PE_ACC_WIDTH)
                        /\ o_overflow(ipe')
                 /\ true_sum < acc_min(PE_ACC_WIDTH)
                     => /\ o_result(ipe') = acc_min(PE_ACC_WIDTH)
                        /\ o_overflow(ipe')
         ]_vars

\* the exact sum of the latched products is above the range and the
\* accumulator sits on the upper boundary
C22_Witness ==
    /\ o_done(ipe)
    /\ o_overflow(ipe)
    /\ o_result(ipe) = acc_max(PE_ACC_WIDTH)
    /\ ipe_sum > acc_max(PE_ACC_WIDTH)

\* ------------------------------------------------------------------------
\* C23: once the integer processing element has raised o_overflow, the flag
\* stays up across every later edge, whatever is accumulated, until an edge
\* that samples i_clear or reset.
\* ------------------------------------------------------------------------
C23_PeOverflowSticky ==
    [][ (o_overflow(ipe) /\ ~ipe_in'.i_clear /\ ~ipe_in'.i_reset)
            => o_overflow(ipe')
      ]_vars

\* ------------------------------------------------------------------------
\* C24: an edge that samples i_enable with no product pending only latches
\* the product of the operands on the inputs and sets valid_product: the
\* accumulator is unchanged and o_done is low; the next edge adds the
\* latched product (whatever is on the inputs by then) to the accumulator,
\* clears valid_product and raises o_done; o_done is up for one cycle.
\* ------------------------------------------------------------------------
C24_PeTwoCyclePipeline ==
    [][ (~ipe_in'.i_clear /\ ~ipe_in'.i_reset) =>
          /\ (ipe_in'.i_enable /\ ~ipe.valid_product)
                => /\ ipe'.valid_product
                   /\ ipe'.product_latched = ipe_sum' - ipe_sum
                   /\ o_result(ipe') = o_result(ipe)
                   /\ ~o_done(ipe')
          /\ ipe.valid_product
                => /\ ~ipe'.valid_product
                   /\ o_done(ipe')
                   /\ ipe'.product_latched = ipe.product_latched
                   /\ ~ipe_sat'
                        => o_result(ipe') = o_result(ipe) + ipe.product_latched
          /\ o_done(ipe) => ~o_done(ipe')
          /\ o_done(ipe') => ipe.valid_product
      ]_vars

\* the one product -128 * 127 has been latched and then accumulated
C24_Witness ==
    /\ o_done(ipe)
    /\ ~ipe.valid_product
    /\ ipe_ops = 1
    /\ o_result(ipe) = -16256
    /\ ipe.product_latched = -16256

\* ------------------------------------------------------------------------
\* C25: counted from the last clear or reset, once every product the
\* element latched on an i_enable edge has been accumulated and none of the
\* accumulations left the range, the accumulator equals the exact integer
\* sum of a_k * b_k over those operations, negative operands included.
\* ------------------------------------------------------------------------
C25_PeAccumulation ==
    (~ipe.valid_product /\ ~ipe_sat) => o_result(ipe) = ipe_sum

\* -128 * 127 + -128 * 3 + -1 * -1
C25_Witness ==
    /\ o_done(ipe)
    /\ ~ipe_sat
    /\ ipe_ops = 3
    /\ ipe_sum = -16639
    /\ o_result(ipe) = -16639

\* ------------------------------------------------------------------------
\* C26: an edge that samples i_clear, in any state of the element and with
\* or without i_enable, leaves accumulator = 0, valid_product, o_done and
\* o_overflow low; a product latched before the clear is gone: an element
\* with a zero accumulator and nothing pending keeps the accumulator zero
\* on the next edge whatever its inputs.
\* ------------------------------------------------------------------------
C26_PeClear ==
    /\ [](ipe_in.i_clear =>
            /\ o_result(ipe) = 0
            /\ ipe.product_latched = 0
            /\ ~ipe.valid_product
            /\ ~o_done(ipe)
            /\ ~o_overflow(ipe))
    /\ [][ (o_result(ipe) = 0 /\ ~ipe.valid_product) => o_result(ipe') = 0
         ]_vars

\* i_clear came together with i_enable after a product had been latched
C26_Witness ==
    /\ ipe_in.i_clear
    /\ ipe_in.i_enable
    /\ ipe_ops = 1
    /\ ~ipe.valid_product
    /\ o_result(ipe) = 0



\* ------------------------------------------------------------------------
\* C27: in the 3x3 integer array o_computation_done is up only when all
\* nine elements have accumulated the operands of the most recent
\* i_data_valid pulse: it is never up while an element holds a latched
\* product it has not accumulated, however the pulses are spaced.
\* ------------------------------------------------------------------------
C27_Pa3Barrier ==
    pa3.o_computation_done => \A k \in PEs_3x3 : ~pa3.pe[k].valid_product

\* ------------------------------------------------------------------------
\* C21: the element at (i, j) of the 3x3 integer array receives as operand
\* A all eight bits [8i+7 .. 8i] of i_a_vector and as operand B all eight
\* bits [8j+7 .. 8j] of i_b_vector, the top bit included.
\* ------------------------------------------------------------------------
C21_Pa3BroadcastSlicing ==
    ~pa3.ValueError =>
        \A k \in PEs_3x3 :
            /\ pa3.a_slices[pe_row(k)] % 2 ^ DATA_WIDTH =
                   shadow_slices_3x3_whole_byte(pa3_in.i_a_vector, pe_row(k))
            /\ pa3.b_slices[pe_col(k)] % 2 ^ DATA_WIDTH =
                   shadow_slices_3x3_whole_byte(pa3_in.i_b_vector, pe_col(k))


\* ------------------------------------------------------------------------
\* C28: for every 8-bit pattern b other than 0x7F and 0xFF, decoding b with
\* to_float and encoding the float with float_to_fp8 gives b back.
\* ------------------------------------------------------------------------
C28_CodecRoundTrip ==
    (codec.stage = "encoded" /\ codec.value \notin {NAN, NAN + 128}) =>
        codec.raw_value = codec.value


\* ------------------------------------------------------------------------
\* C29: in the single-cycle integer MAC unit the accumulator stays within
\* [result.min, result.max - 1]; an enabled edge whose true sum leaves that
\* range sets the accumulator to result.max - 1 (or result.min) and overflow
\* to true on that edge; with the 16-bit unsigned result, accumulating
\* 100 * 100 again and again ends at 65535 with overflow up.
\* ------------------------------------------------------------------------
C29_MacUnitSaturation ==
    /\ [](/\ mac_unit_result(imac) >= result_min
          /\ mac_unit_result(imac) <= result_max - 1)
    /\ [][ (imac_in'.enable /\ ~imac_in'.reset) =>
             LET true_sum == imac.acc + imac_in'.a * imac_in'.b
             IN  /\ true_sum > result_max - 1 =>
                        /\ mac_unit_result(imac') = result_max - 1
                        /\ imac'.overflow
                 /\ true_sum < result_min =>
                        /\ mac_unit_result(imac') = result_min
                        /\ imac'.overflow ]_vars
    /\ [](/\ (imac_run \in 1 .. 6) =>
                 /\ mac_unit_result(imac) = imac_run * 10000
                 /\ ~imac.overflow
          /\ imac_run >= 7 =>
                 /\ mac_unit_result(imac) = 65535
                 /\ imac.overflow)

C29_Witness ==
    /\ imac_run = 8
    /\ imac_in.enable
    /\ imac.overflow
    /\ mac_unit_result(imac) = 65535


\* ------------------------------------------------------------------------
\* C30: in the adder and in the multiplier the operand registers a and b
\* are written only on an edge where the state is IDLE and start is high.
\* From the edge that leaves IDLE to the edge that returns to it, whatever
\* input_a, input_b and start carry, every register (a, b, the result in
\* flight, done and the state) moves as it does with start low and the
\* buses at zero.  An edge with reset high is the one exception.
\* ------------------------------------------------------------------------
C30_OperandsFrozen ==
    [][ /\ add' # add_reset(add) =>
            /\ (add'.a # add.a \/ add'.b # add.b) =>
                   (add.state = "IDLE" /\ add'.state = "UNPACK")
            /\ add.state # "IDLE" => add' = add_state_machine(add, FALSE, 0, 0)
        /\ mul' # mul_reset(mul) =>
            /\ (mul'.a # mul.a \/ mul'.b # mul.b) =>
                   (mul.state = "IDLE" /\ mul'.state = "UNPACK")
            /\ mul.state # "IDLE" => mul' = mul_state_machine(mul, FALSE, 0, 0)
      ]_vars

\* the adder has run 2.0 + -1.5 through to the result 0.5 while start and
\* the operand buses carried every value of the table on every edge
C30_Witness ==
    /\ add.state = "IDLE"
    /\ add.s_done
    /\ add_ops = 2
    /\ add.a = 64
    /\ add.b = 188
    /\ add.s_output_z = 48
    /\ add_prior.a = 60


\* ------------------------------------------------------------------------
\* C31: a clock edge with reset high, taken while the adder or the
\* multiplier is in any state, leaves the unit in IDLE with done low; no
\* done pulse follows until a new operation has been started, so the
\* operation cut short never reports; and the first operation started after
\* the reset gives the output a freshly reset unit gives for its operands.
\* ------------------------------------------------------------------------
C31_ResetAbort ==
    /\ [](/\ add_since_reset.edge => (add.state = "IDLE" /\ ~add.s_done)
          /\ add_since_reset.ops = 0 => (add.state = "IDLE" /\ ~add.s_done)
          /\ (add.s_done /\ add_since_reset.ops = 1) =>
                 add.s_output_z = add_run(add_init, add.a, add.b).s_output_z)
    /\ [](/\ mul_since_reset.edge => (mul.state = "IDLE" /\ ~mul.s_done)
          /\ mul_since_reset.ops = 0 => (mul.state = "IDLE" /\ ~mul.s_done)
          /\ (mul.s_done /\ mul_since_reset.ops = 1) =>
                 mul.s_output_z = mul_run(mul_init, mul.a, mul.b).s_output_z)

\* the reset edge has just cut short the adder's first operation
C31_Witness ==
    /\ add_since_reset.edge
    /\ add_since_reset.aborted
    /\ add_ops = 1
    /\ add.state = "IDLE"
    /\ ~add.s_done

\* the states of the adder in the order the source declares them
t_State ==
    << "IDLE", "UNPACK", "SPECIAL_CASES", "ALIGN", "ADD_0", "ADD_1",
       "NORMALISE_1", "NORMALISE_2", "ROUND", "PACK", "PUT_Z" >>

t_State_index(st) == CHOOSE i \in DOMAIN t_State : t_State[i] = st

\* the transitions named for an edge with reset low: a stay in one of the
\* four states that wait or iterate, a step to the state declared next,
\* one of the two forward skips, or the return from PUT_Z to IDLE
add_transition_in_order(from, to) ==
    \/ from = to /\ from \in {"IDLE", "ALIGN", "NORMALISE_1", "NORMALISE_2"}
    \/ t_State_index(to) = t_State_index(from) + 1
    \/ from \in {"SPECIAL_CASES", "ALIGN"} /\ to = "PUT_Z"
    \/ from = "PUT_Z" /\ to = "IDLE"

\* C32: with reset low every edge of the adder keeps the state (IDLE, ALIGN,
\* NORMALISE_1, NORMALISE_2 only), advances it in the declared order, skips
\* from SPECIAL_CASES or ALIGN to PUT_Z, or returns from PUT_Z to IDLE, and
\* every operation started enters PUT_Z (once: the order allows no return
\* to it before IDLE).
C32_AdderStateOrder ==
    /\ [][~add'.ValueError => add_transition_in_order(add.state, add'.state)]_vars
    /\ [](add.state = "UNPACK" => <>(add.state = "PUT_Z"))

\* the operands on the buses are neither NaN nor zero, the max-value case
\* of SPECIAL_CASES does not apply to them, and their exponent fields are
\* more than max_shifts apart
NegligibleOperand(a, b) ==
    /\ ~IsNaNPattern(a) /\ ~IsNaNPattern(b)
    /\ ~add_is_zero(a) /\ ~add_is_zero(b)
    /\ ~((add_is_max(a) \/ add_is_max(b)) /\ SignBit(a) = SignBit(b))
    /\ Abs(ExpField(a) - ExpField(b)) > add_init.max_shifts

LargerExponentOperand(a, b) == IF ExpField(a) > ExpField(b) THEN a ELSE b

\* C33: for operands that are neither NaN nor zero and not in the max-value
\* case, with exponent fields more than 5 apart, the adder never enters
\* ADD_0 and its output is the operand with the larger exponent field, which
\* is the exact sum rounded to nearest, ties to even.
C33_NegligibleOperandShortCircuit ==
    (add_ops = 1 /\ NegligibleOperand(add_bus[1], add_bus[2])) =>
        /\ ~add.ValueError
        /\ add.state \notin {"ADD_0", "ADD_1", "NORMALISE_1", "NORMALISE_2",
                             "ROUND", "PACK"}
        /\ add.s_done =>
               /\ add.s_output_z = LargerExponentOperand(add_bus[1], add_bus[2])
               /\ add.s_output_z = RoundedSum(add_bus[1], add_bus[2])

\* a negative normal value plus a positive denormal one, the smaller operand
\* on the first bus
C33_Witness ==
    /\ add.s_done
    /\ NegligibleOperand(add_bus[1], add_bus[2])
    /\ ExpField(add_bus[1]) = 0
    /\ SignBit(add_bus[1]) = 0
    /\ SignBit(add_bus[2]) = 1
    /\ add.s_output_z = add_bus[2]

\* a is finite and not zero and b is a with the sign bit flipped
ExactCancellation(a, b) ==
    /\ ~IsNaNPattern(a)
    /\ ~add_is_zero(a)
    /\ b = (a + 2 ^ (WIDTH - 1)) % 2 ^ WIDTH

\* C36: the sum of a finite non-zero value and its negation, in either
\* order, is output as 0x00, and the operation raises done.
C36_ExactCancellation ==
    /\ []((add.s_done /\ ExactCancellation(add_bus[1], add_bus[2]))
              => add.s_output_z = 0)
    /\ (add.state = "UNPACK" /\ ExactCancellation(add_bus[1], add_bus[2])) ~> add.s_done

\* max-finite plus its negation, the negative operand first
C36_Witness ==
    /\ add.s_done
    /\ add_bus = << 254, 126 >>
    /\ add.s_output_z = 0

\* the magnitude bits of a pattern
MagnitudeBits(x) == x % 2 ^ (WIDTH - 1)

\* ROUND is about to round up a mantissa whose fraction bits are all ones
RoundsUpAllOnes(r) ==
    /\ r.state = "ROUND"
    /\ ~r.ValueError
    /\ add_round_up(r)
    /\ Slice(r.z_m, MAN_BITS, 0) = 2 ^ MAN_BITS - 1

\* C34: when ROUND rounds up a normalised mantissa 1111 the operation ends
\* with fraction 000 and the exponent field one above the one before
\* rounding, or with the max-finite magnitude; when it rounds up a denormal
\* mantissa 0111 the operation ends with exponent field 1 and fraction 000.
C34_RoundingCarry ==
    RoundsUpAllOnes(add) =>
        LET out == add_until_done(add, RunFuel)
        IN  /\ out.s_done
            /\ IF Bit(add.z_m, MAN_BITS) = 1
               THEN \/ /\ ManField(out.s_output_z) = 0
                       /\ ExpField(out.s_output_z) = add.z_e + EXP_BIAS + 1
                    \/ MagnitudeBits(out.s_output_z) = MagnitudeBits(MAX_POS)
               ELSE /\ ManField(out.s_output_z) = 0
                    /\ ExpField(out.s_output_z) = 1

\* C35: a completed addition of non-NaN operands has the max-finite
\* magnitude (exponent 15, mantissa 6) only if the exact sum rounds to it
\* or lies beyond it; a sum that rounds to a smaller representable value is
\* output as that value's encoding.
C35_ClampCondition ==
    (AddDoneNoNaN /\ MagnitudeBits(add.s_output_z) = MagnitudeBits(MAX_POS))
        => MagnitudeBits(RoundedSum(add.a, add.b)) = MagnitudeBits(MAX_POS)

\* C37: a completed addition outputs what the same operands give on an adder
\* fresh from reset, whatever was added before.
C37_HistoryIndependence ==
    (add.s_done /\ add_since_reset.ops > 0) =>
        add.s_output_z = add_run(add_init, add.a, add.b).s_output_z

\* C38: no edge of an addition assigns a value outside the declared range of
\* the register (or slice) assigned: z_m in 0..15, a_m and b_m in 0..31,
\* sum_val in 0..63, the exponents in -16..15, and z_e + 7 in 0..15 at PACK.
C38_RegisterRangeSafety ==
    /\ ~add.ValueError
    /\ (add.state = "ROUND" /\ add_round_up(add))
           => add.z_m + 1 \in 0 .. 2 ^ (MAN_BITS + 1) - 1
    /\ add.state = "PACK" => add.z_e + EXP_BIAS \in 0 .. 2 ^ EXP_BITS - 1

\* ------------------------------------------------------------------------
\* C39: in the 3x3 integer array every slice the input vectors give lies in
\* the range a_slices and b_slices are declared with, and every result an
\* element drives after the next edge lies in the range pe_results are
\* declared with.
\* ------------------------------------------------------------------------
C39_Pa3SignalRanges ==
    /\ \A i \in 0 .. ARRAY_SIZE - 1 :
           /\ slice_in_range(shadow_slices_3x3(pa3_in.i_a_vector, i))
           /\ slice_in_range(shadow_slices_3x3(pa3_in.i_b_vector, i))
    /\ \A k \in PEs_3x3 :
           /\ pe_results_in_range(o_result(pa3.pe[k]))
           /\ pe_results_in_range(
                  o_result(seq_logic(pa3.pe[k], DATA_WIDTH, ACC_WIDTH,
                                     pa3.a_slices[pe_row(k)],
                                     pa3.b_slices[pe_col(k)], FALSE, FALSE)))

\* ------------------------------------------------------------------------
\* C40: in the 3x3 integer array every i_data_valid pulse the elements
\* accept is followed by an o_computation_done pulse raised after its
\* accumulation (unless a clear or a reset drops the operation).
\* ------------------------------------------------------------------------
C40_Pa3CompletionLiveness ==
    (pa3_pending /\ ~pa3.ValueError) ~> (~pa3_pending \/ pa3.ValueError)

========================================================================
